---- MODULE Spec2Model ----
(***************************************************************************)
(* graphql-ops-proxy: the operation registry, the per-operation resolver   *)
(* (validate -> override-or-remote), the remote dispatcher and the         *)
(* deduplicating TTL cache that withCache puts around query resolvers.     *)
(*                                                                         *)
(* JavaScript objects (variables, header collections) are sequences of     *)
(* <<key, value>> pairs in insertion order with unique keys.  Promises     *)
(* are modelled by the position (pc) of the execution that settles them.   *)
(* Time is the second-granular clock the cache storage reads.              *)
(***************************************************************************)
EXTENDS Integers, Sequences, FiniteSets, TLC

VARIABLES operations, opsMap, mValidate, mCustomHandler, wrapped, cacheTTL,
          dedupes, storage, calls, execs, now, validation, lookup, registrations

vars == <<operations, opsMap, mValidate, mCustomHandler, wrapped, cacheTTL,
          dedupes, storage, calls, execs, now, validation, lookup, registrations>>

-----------------------------------------------------------------------------
(* Bounds of the exploration *)

MaxCalls == 2

MaxTime == 2

\* the ttl of @pcached(ttl: ...) and of withCache's cacheTTL, in seconds
PcachedTTL == 1

GlobalTTL == 1

\* the longest list of operations createGraphqlProxy is given
MaxOps == 3

NULL == "null"

-----------------------------------------------------------------------------
(* JavaScript objects as insertion-ordered sequences of <<key, value>> *)

Keys(obj) == {obj[i][1] : i \in 1..Len(obj)}

Has(obj, k) == k \in Keys(obj)

Get(obj, k) == LET i == CHOOSE j \in 1..Len(obj) : obj[j][1] = k IN obj[i][2]

\* obj[k] = v : an existing key keeps its position, a new key is appended
Put(obj, k, v) ==
  IF Has(obj, k)
    THEN [i \in 1..Len(obj) |-> IF obj[i][1] = k THEN <<k, v>> ELSE obj[i]]
    ELSE Append(obj, <<k, v>>)

\* delete obj[k]
Delete(obj, k) == SelectSeq(obj, LAMBDA p : p[1] # k)

\* the object as an unordered map (what two objects with the same entries share)
Entries(obj) == {obj[i] : i \in 1..Len(obj)}

\* String order of the property names that occur (code-unit order, as sort() uses)
KeyRank(k) ==
  CASE k = "X-Hasura-H"        -> 1
    [] k = "__operation"       -> 2
    [] k = "a"                 -> 3
    [] k = "auth"              -> 4
    [] k = "authorization"     -> 5
    [] k = "b"                 -> 6
    [] k = "id"                -> 7
    [] k = "v"                 -> 8
    [] k = "x-hasura-h"        -> 9
    [] k = "x-hasura-role"     -> 10
    [] OTHER                   -> 11

\* String.prototype.toLowerCase on the header names that occur
ToLowerCase(k) ==
  CASE k = "X-Hasura-H"    -> "x-hasura-h"
    [] k = "Authorization" -> "authorization"
    [] OTHER               -> k

StartsWithXHasura(k) == k \in {"x-hasura-h", "x-hasura-role"}

RECURSIVE SortByKey(_)
SortByKey(obj) ==
  IF obj = <<>> THEN <<>>
  ELSE LET i == CHOOSE j \in 1..Len(obj) :
                  \A l \in 1..Len(obj) : KeyRank(obj[j][1]) <= KeyRank(obj[l][1])
           rest == [l \in 1..(Len(obj) - 1) |-> IF l < i THEN obj[l] ELSE obj[l + 1]]
       IN <<obj[i]>> \o SortByKey(rest)

-----------------------------------------------------------------------------
(* The registry built by createGraphqlProxy *)

Operations ==
  << [operationName |-> "getX", type |-> "query",    query |-> "query getX { x }",
      ttl |-> <<>>],
     [operationName |-> "getY", type |-> "query",    query |-> "query getY { y }",
      ttl |-> <<PcachedTTL>>],
     [operationName |-> "setX", type |-> "mutation", query |-> "mutation setX { x }",
      ttl |-> <<PcachedTTL>>] >>

OpNames == {Operations[i].operationName : i \in 1..Len(Operations)}

\* a document without an operation, or whose operation has no type or name
IsMalformed(oper) == oper.type = "" \/ oper.operationName = ""

MapSet_Append(m, def) == Append(m, def)

\* opsMap.set(name, def): a name already there keeps its place and gets the
\* new definition
MapSet(m, def) ==
  IF \E i \in 1..Len(m) : m[i].operationName = def.operationName
    THEN [i \in 1..Len(m) |-> IF m[i].operationName = def.operationName THEN def ELSE m[i]]
    ELSE Append(m, def)

\* the forEach over the operations that fills opsMap
RECURSIVE OpsMapOf(_)
OpsMapOf(opers) ==
  IF opers = <<>> THEN <<>>
  ELSE MapSet(OpsMapOf(SubSeq(opers, 1, Len(opers) - 1)), opers[Len(opers)])

\* opsMap.get(name)
OpsHas(name) == \E i \in 1..Len(opsMap) : opsMap[i].operationName = name

OpsGet(name) == opsMap[CHOOSE i \in 1..Len(opsMap) : opsMap[i].operationName = name]

getOperation_First(name) ==
  IF opsMap # <<>>
    THEN [name |-> name, threw |-> FALSE, error |-> <<>>, def |-> <<opsMap[1]>>]
    ELSE [name |-> name, threw |-> TRUE, def |-> <<>>,
          error |-> <<"Error", "no document registered for ", name>>]

\* getOperation(name): the definition or
\* throw new Error('no document registered for ' + name)
getOperation(name) ==
  IF OpsHas(name)
    THEN [name |-> name, threw |-> FALSE, error |-> <<>>, def |-> <<OpsGet(name)>>]
    ELSE [name |-> name, threw |-> TRUE, def |-> <<>>,
          error |-> <<"Error", "no document registered for ", name>>]

-----------------------------------------------------------------------------
(* Header handling *)

getHasuraHeaders_NoLowerCase(headers) ==
  SelectSeq(headers, LAMBDA p : p[1] \in {"X-Hasura-H"})

\* getHasuraHeaders: the entries whose lower-cased name starts with x-hasura
getHasuraHeaders(headers) ==
  SelectSeq(headers, LAMBDA p : StartsWithXHasura(ToLowerCase(p[1])))

stableJson_InsertionOrder(obj) == obj

\* safe-stable-stringify of an object: keys sorted, undefined entries dropped
stableJson(obj) == SortByKey(obj)

cacheKeySerialize_NoAuth(arg) ==
  stableJson(<< <<"v", stableJson(arg.variables)>> >> \o getHasuraHeaders(arg.headers))

cacheKeySerialize_AllHeaders(arg) ==
  <<stableJson(arg.variables), arg.headers>>

\* The default cacheKeySerialize.  arg is what the wrapped resolver was called
\* with; a property arg does not have (operation, authorization) is undefined
\* and is dropped by the serializer.
cacheKeySerialize(arg) ==
  LET opPart   == IF "operation" \in DOMAIN arg
                    THEN << <<"__operation", arg.operation>> >> ELSE <<>>
      vPart    == << <<"v", stableJson(arg.variables)>> >>
      authPart == IF Has(arg.headers, "authorization")
                    THEN << <<"auth", Get(arg.headers, "authorization")>> >> ELSE <<>>
  IN stableJson(opPart \o vPart \o authPart \o getHasuraHeaders(arg.headers))

\* Buffer.byteLength(bodyPayload), kept symbolic
ByteLength == "byteLength(body)"

\* The header object _requestRemote hands to the transport
RemoteHeaders(headers) ==
  LET h1 == Put(headers, "content-length", ByteLength)
      h2 == Put(h1, "content-type", "application/json")
      h3 == Delete(h2, "connection")
  IN Delete(h3, "transfer-encoding")

propsHeadersAfter_InPlace(headers) == RemoteHeaders(headers)

\* props.headers once _requestRemote has built the transport's headers:
\* Object.assign({...props.headers, ...}) fills a fresh object and the deletes
\* act on that object, so the caller's collection keeps its entries
propsHeadersAfter(headers) == headers

\* copyHeaders(originalHeaders, toCopy)
copyHeaders(originalHeaders, toCopy) ==
  SelectSeq(originalHeaders, LAMBDA p : p[1] \in toCopy)

\* What the upstream answers with
UpstreamHeaders ==
  << <<"content-type", "application/json">>, <<"set-cookie", "sid=1">>,
     <<"x-includes", "123">> >>

-----------------------------------------------------------------------------
(* Inputs *)

V1 == << <<"id", 1>> >>

V2 == << <<"id", 2>> >>

AuthA == << <<"authorization", "a">> >>

AuthB == << <<"authorization", "b">> >>

AuthARole == << <<"authorization", "a">>, <<"x-hasura-role", "admin">> >>

\* what a browser behind a reverse proxy sends along
AuthAFull ==
  << <<"host", "example.org">>, <<"connection", "keep-alive">>,
     <<"keep-alive", "timeout=5">>, <<"transfer-encoding", "chunked">>,
     <<"content-length", "123">>, <<"authorization", "a">>,
     <<"cookie", "sid=1">> >>

\* request(operationName, variables, headers)
Inputs ==
  { [name |-> "getX", variables |-> V1, headers |-> AuthA],
    [name |-> "getX", variables |-> V1, headers |-> AuthB],
    [name |-> "getX", variables |-> V2, headers |-> AuthA],
    [name |-> "getX", variables |-> V1, headers |-> AuthARole],
    [name |-> "getY", variables |-> V1, headers |-> AuthA],
    [name |-> "setX", variables |-> V1, headers |-> AuthAFull],
    [name |-> "nope", variables |-> V1, headers |-> AuthA] }

\* validators: "vMin" returns a validation failure for id < 2
Validators == {"vMin"}

\* override handlers: "h1" returns a value
Handlers == {"h1"}

\* the operations validators and overrides get registered for
RegOps == {"getX"}

-----------------------------------------------------------------------------
(* Request parsing: fromPostRequest, fromGetRequest *)

\* JavaScript values with their typeof
Undefined == <<"undefined">>

Str(s) == <<"string", s>>

Num(n) == <<"number", n>>

Obj(o) == <<"object", o>>

TypeOf(v) == v[1]

\* obj[k]: undefined for a property the object does not have
Prop(obj, k) == IF Has(obj, k) THEN Get(obj, k) ELSE Undefined

\* a ?? b
Coalesce(a, b) == IF TypeOf(a) = "undefined" THEN b ELSE a

\* !v
IsFalsy(v) ==
  \/ TypeOf(v) = "undefined"
  \/ TypeOf(v) = "string" /\ v[2] = ""
  \/ TypeOf(v) = "number" /\ v[2] = 0

\* JSON.parse on the texts that occur; anything else is a SyntaxError
JSONParse(text) ==
  CASE text = "{\"id\":1}" -> Obj(V1)
    [] text = "{\"id\":2}" -> Obj(V2)
    [] text = "7"          -> Num(7)
    [] OTHER               -> <<"throw", "SyntaxError">>

fromPostRequest_WithOperationName(body) ==
  [operation |-> Coalesce(Prop(body, "op"),
                   Coalesce(Prop(body, "operationName"),
                     Coalesce(Prop(body, "operation"), Prop(body, "query")))),
   variables |-> Coalesce(Prop(body, "v"), Prop(body, "variables"))]

\* fromPostRequest(body) of the proxy module the handlers import
fromPostRequest(body) ==
  [operation |-> Coalesce(Prop(body, "op"),
                   Coalesce(Prop(body, "operation"), Prop(body, "query"))),
   variables |-> Coalesce(Prop(body, "v"), Prop(body, "variables"))]

fromGetRequest_OpOnly(query) ==
  LET variables == Coalesce(Prop(query, "v"), Prop(query, "variables"))
  IN [operation |-> Prop(query, "op"),
      variables |-> IF IsFalsy(variables) THEN Undefined
                    ELSE IF TypeOf(variables) = "string" THEN JSONParse(variables[2])
                    ELSE variables]

\* fromGetRequest(query)
fromGetRequest(query) ==
  LET variables == Coalesce(Prop(query, "v"), Prop(query, "variables"))
  IN [operation |-> Coalesce(Prop(query, "op"),
                      Coalesce(Prop(query, "operation"), Prop(query, "query"))),
      variables |-> IF IsFalsy(variables) THEN Undefined
                    ELSE IF TypeOf(variables) = "string" THEN JSONParse(variables[2])
                    ELSE variables]

\* what an override handler may return
HandlerResults == {Obj(V1), Undefined}

-----------------------------------------------------------------------------
(* Results *)

Pending ==
  [kind |-> "pending", message |-> <<>>, by |-> "", exec |-> 0, headers |-> <<>>,
   data |-> Undefined]

Failure(kind, message) ==
  [kind |-> kind, message |-> message, by |-> "", exec |-> 0, headers |-> <<>>,
   data |-> Undefined]

\* messages are tuples of their parts ('operation ' + name + ' not found')
\* a ProxyResponse; by/exec identify the payload (every execution produces a
\* fresh one), by = "transport" is the upstream body, otherwise { data: ... }
Response(by, e, headers) ==
  [kind |-> "ok", message |-> <<>>, by |-> by, exec |-> e, headers |-> headers,
   data |-> Undefined]

OverrideResponse_RemoteHeaders(handler, e, handlerResponse) ==
  [Response(handler, e, copyHeaders(UpstreamHeaders, {"content-encoding", "content-type"}))
     EXCEPT !.data = handlerResponse]

\* { headers: {}, response: { data: handlerResponse } }
OverrideResponse(handler, e, handlerResponse) ==
  [Response(handler, e, <<>>) EXCEPT !.data = handlerResponse]

\* what a handler has answered: nothing yet
NoResponse == [status |-> 0, message |-> <<>>, exec |-> 0, headers |-> <<>>]

\* sendError(message, code): the status and a body { message }
sendError(message, code) ==
  [status |-> code, message |-> message, exec |-> 0, headers |-> <<>>]

\* the response headers the handlers copy by default
defaultHeaderCopy(proxyHeaders) ==
  copyHeaders(proxyHeaders, {"content-encoding", "content-type", "content-length"})

Respond_AllInternal(result) ==
  IF result.kind = "ok"
    THEN [status |-> 200, message |-> <<>>, exec |-> result.exec,
          headers |-> defaultHeaderCopy(result.headers)]
    ELSE sendError(result.message, 500)

\* what rawRequest / _request answer once proxy.request has settled
Respond(result) ==
  CASE result.kind = "ok" ->
         [status |-> 200, message |-> <<>>, exec |-> result.exec,
          headers |-> defaultHeaderCopy(result.headers)]
    [] result.kind = "NotFoundError"   -> sendError(result.message, 404)
    [] result.kind = "ValidationError" -> sendError(result.message, 400)
    [] OTHER                           -> sendError(result.message, 500)

\* a handler of createNextHandler created with options.resultHeaders
NextWithResultHeaders == "next+resultHeaders"

\* the options.resultHeaders of that handler: copies x-includes
resultHeaders(proxyHeaders) == copyHeaders(proxyHeaders, {"x-includes"})

\* rawRequest with mToResultHeaders = options.resultHeaders
RespondProjected(result) ==
  IF result.kind = "ok"
    THEN [Respond(result) EXCEPT !.headers = resultHeaders(result.headers)]
    ELSE Respond(result)

\* no HTTP request: the call was made on the proxy directly
NoReq == [method |-> "", payload |-> <<>>, headers |-> <<>>]

\* a call of request(); adapter is the handler it came through ("" for a
\* direct call), req the HTTP request and response what the handler answered
IdleCall ==
  [pc |-> "idle", name |-> "", variables |-> <<>>, headers |-> <<>>, exec |-> 0,
   hit |-> FALSE, viaCache |-> FALSE, issuedAt |-> 0, result |-> Pending,
   adapter |-> "", req |-> NoReq, response |-> NoResponse]

\* the promise of a call settles; a handler awaiting it answers
Deliver(call, result) ==
  [call EXCEPT !.pc = "done", !.result = result,
               !.response = IF call.adapter = "" THEN NoResponse
                            ELSE IF call.adapter = NextWithResultHeaders
                              THEN RespondProjected(result)
                              ELSE Respond(result)]

\* what has been registered last for each operation, by addValidation and by
\* addOverride
NoRegistrations(names) ==
  [validate |-> [n \in names |-> NULL], override |-> [n \in names |-> NULL]]

\* getOperation has not been called
NoLookup == [name |-> "", threw |-> FALSE, error |-> <<>>, def |-> <<>>]

\* proxy.validate() has not been called
NoValidation ==
  [pc |-> "idle", opsToCheck |-> <<>>, dispatched |-> FALSE, schema |-> "",
   errors |-> <<>>, threw |-> FALSE]

NoExec ==
  [pc |-> "none", name |-> "", variables |-> <<>>, headers |-> <<>>, key |-> <<>>,
   viaCache |-> FALSE, validator |-> NULL, handler |-> NULL, dispatched |-> FALSE,
   sent |-> <<>>, query |-> <<>>, result |-> Pending, resolvedAt |-> 0]

Init ==
  /\ operations = Operations
  /\ opsMap = OpsMapOf(Operations)
  /\ mValidate = [n \in OpNames |-> NULL]
  /\ mCustomHandler = [n \in OpNames |-> NULL]
  /\ wrapped = FALSE
  /\ cacheTTL = 0
  /\ dedupes = {}
  /\ storage = {}
  /\ calls = [c \in 1..MaxCalls |-> IdleCall]
  /\ execs = [e \in 1..MaxCalls |-> NoExec]
  /\ now = 0
  /\ validation = NoValidation
  /\ lookup = NoLookup
  /\ registrations = NoRegistrations(DOMAIN mValidate)

-----------------------------------------------------------------------------
(* OpsDef.resolve *)

\* what the validator yields for the variables: "pass" (nothing), "invalid"
\* (a validation failure object) or "throw"
Verdict(v, variables) ==
  CASE v = "vMin" -> IF Get(variables, "id") < 2 THEN "invalid" ELSE "pass"
    [] OTHER      -> "throw"

\* the failure object's message
VerdictMessage(v) == <<"notvalid">>

IsValidationFailure_Ignored(verdict) == verdict = "throw"

\* if (error) throw new ValidationError(error.message)
IsValidationFailure(verdict) == verdict = "invalid"

AfterValidate_RemoteFirst(x) ==
  [x EXCEPT !.pc = "transport", !.dispatched = TRUE, !.sent = RemoteHeaders(x.headers),
            !.query = <<OpsGet(x.name).query>>]

\* the rest of resolve once validation is through: the override when one is
\* set, otherwise this.request (_requestRemote), which calls the transport
AfterValidate(x) ==
  IF mCustomHandler[x.name] # NULL
    THEN [x EXCEPT !.pc = "overriding", !.handler = mCustomHandler[x.name]]
    ELSE [x EXCEPT !.pc = "transport", !.dispatched = TRUE,
                   !.sent = RemoteHeaders(x.headers),
                   !.headers = propsHeadersAfter(x.headers),
                   !.query = <<OpsGet(x.name).query>>]

Resolve_OverrideFirst(x) ==
  IF mCustomHandler[x.name] # NULL
    THEN AfterValidate(x)
    ELSE IF mValidate[x.name] # NULL
      THEN [x EXCEPT !.pc = "validating", !.validator = mValidate[x.name]]
      ELSE AfterValidate(x)

Resolve_WrappedBare(x) ==
  IF x.viaCache
    THEN [x EXCEPT !.pc = "transport", !.dispatched = TRUE,
                   !.sent = RemoteHeaders(x.headers),
                   !.query = <<OpsGet(x.name).query>>]
    ELSE IF mValidate[x.name] # NULL
      THEN [x EXCEPT !.pc = "validating", !.validator = mValidate[x.name]]
      ELSE AfterValidate(x)

\* resolve up to its first await
Resolve(x) ==
  IF mValidate[x.name] # NULL
    THEN [x EXCEPT !.pc = "validating", !.validator = mValidate[x.name]]
    ELSE AfterValidate(x)

-----------------------------------------------------------------------------
(* withCache: async-cache-dedupe around the resolvers of queries *)

ShouldWrap_Any(def) == def.type \in {"query", "mutation"}

ShouldWrap_OnlyMutations(def) == def.type = "mutation"

\* only cache queries
ShouldWrap(def) == def.type = "query"

EffectiveTTL_GlobalOnly(def) == cacheTTL

EffectiveTTL_Millis(def) == 1000 * (IF def.ttl # <<>> THEN def.ttl[1] ELSE cacheTTL)

EffectiveTTL_AtLeastOne(def) ==
  LET ttl == IF def.ttl # <<>> THEN def.ttl[1] ELSE cacheTTL
  IN IF ttl < 1 THEN 1 ELSE ttl

\* ttl of the defined function: the operation's own, else the cache's
EffectiveTTL(def) == IF def.ttl # <<>> THEN def.ttl[1] ELSE cacheTTL

InFlight_AnyName(name, key) == {d \in dedupes : d.key = key}

\* the in-flight execution registered for the key of the function `name`
InFlight(name, key) == {d \in dedupes : d.name = name /\ d.key = key}

\* the stored entries of the key
Stored(name, key) == {s \in storage : s.name = name /\ s.key = key}

IsFresh_FromIssue(s) == calls[s.value.exec].issuedAt + s.ttl > now

\* storage get: an entry is served while start + ttl is in the future
IsFresh(s) == s.start + s.ttl > now

IsStorable_Failures(result, ttl) == ttl >= 1

\* storage set happens for a ttl of at least one second
IsStorable(result, ttl) == result.kind = "ok" /\ ttl >= 1

AfterHit_Refreshed(s) == (storage \ {s}) \cup {[s EXCEPT !.start = now]}

\* the storage after an entry was read: reading changes nothing
AfterHit(s) == storage

NewExec(inp, key, viaCache) ==
  [NoExec EXCEPT !.name = inp.name, !.variables = inp.variables,
                 !.headers = inp.headers, !.key = key, !.viaCache = viaCache]

Waiters_OwnerOnly(e) == {c \in DOMAIN calls : calls[c].pc = "pending" /\ c = e}

\* the callers a settling execution settles
Waiters(e) == {c \in DOMAIN calls : calls[c].pc = "pending" /\ calls[c].exec = e}

\* the reading of the clock at which the cached function's execution resolved
\* with a value (kept for those executions only)
ResolvedAt(x, result) == IF x.viaCache /\ result.kind = "ok" THEN now ELSE 0

StoredAt_Issue(e) == calls[e].issuedAt

\* the cached function stores the result when the wrapped resolve has
\* resolved: the entry starts at that reading of the clock
StoredAt(e) == now

\* An execution settles with result: its promise settles every caller waiting
\* on it; the cache forgets the in-flight entry and stores a success.
Settle(e, result) ==
  LET x   == execs[e]
      ttl == EffectiveTTL(OpsGet(x.name))
  IN /\ execs' = [execs EXCEPT ![e] = [x EXCEPT !.pc = "done", !.result = result,
                                                !.resolvedAt = ResolvedAt(x, result)]]
     /\ calls' = [c \in DOMAIN calls |->
                    IF c \in Waiters(e)
                      THEN Deliver(calls[c], result)
                      ELSE calls[c]]
     /\ dedupes' = {d \in dedupes : d.exec # e}
     /\ storage' = IF x.viaCache /\ IsStorable(result, ttl)
                     THEN (storage \ Stored(x.name, x.key)) \cup
                          {[name |-> x.name, key |-> x.key, value |-> result,
                            start |-> StoredAt(e), ttl |-> ttl]}
                     ELSE storage

-----------------------------------------------------------------------------
(* The facade: request *)

NotFound_Plain(name) == Failure("Error", <<"operation ", name, " not found">>)

\* throw new NotFoundError('operation ' + operationName + ' not found')
NotFound(name) == Failure("NotFoundError", <<"operation ", name, " not found">>)

\* the call as issued
Issued(c, inp) ==
  [calls[c] EXCEPT !.name = inp.name, !.variables = inp.variables,
                   !.headers = inp.headers, !.issuedAt = now,
                   !.adapter = IF "adapter" \in DOMAIN inp THEN inp.adapter ELSE "",
                   !.req = IF "req" \in DOMAIN inp THEN inp.req ELSE NoReq]

\* def.resolve is OpsDef.resolve: every call runs the resolver itself
PlainResolve(c, inp) ==
  /\ execs' = [execs EXCEPT ![c] = Resolve(NewExec(inp, <<>>, FALSE))]
  /\ calls' = [calls EXCEPT ![c] = [Issued(c, inp) EXCEPT !.pc = "pending", !.exec = c]]
  /\ UNCHANGED <<dedupes, storage>>

\* def.resolve is cache[name]: join the in-flight execution of the key, else
\* serve a stored entry that has not expired, else run the resolver
CachedResolve(c, inp, def) ==
  LET key == cacheKeySerialize([variables |-> inp.variables, headers |-> inp.headers])
      me  == [Issued(c, inp) EXCEPT !.viaCache = TRUE]
  IN IF InFlight(inp.name, key) # {}
       THEN LET d == CHOOSE d \in InFlight(inp.name, key) : TRUE
            IN /\ calls' = [calls EXCEPT ![c] = [me EXCEPT !.pc = "pending",
                                                          !.exec = d.exec]]
               /\ UNCHANGED <<execs, dedupes, storage>>
       ELSE IF EffectiveTTL(def) > 0
               /\ \E s \in Stored(inp.name, key) : IsFresh(s)
         THEN LET s == CHOOSE s \in Stored(inp.name, key) : IsFresh(s)
              IN /\ calls' = [calls EXCEPT ![c] = Deliver([me EXCEPT !.hit = TRUE],
                                                          s.value)]
                 /\ storage' = AfterHit(s)
                 /\ UNCHANGED <<execs, dedupes>>
         ELSE /\ execs' = [execs EXCEPT ![c] = Resolve(NewExec(inp, key, TRUE))]
              /\ calls' = [calls EXCEPT ![c] = [me EXCEPT !.pc = "pending", !.exec = c]]
              /\ dedupes' = dedupes \cup {[name |-> inp.name, key |-> key, exec |-> c]}
              /\ storage' = IF EffectiveTTL(def) > 0
                              THEN storage \ Stored(inp.name, key)
                              ELSE storage

\* proxy.request(operationName, variables, headers), up to its first await
Request(c, inp) ==
  /\ calls[c].pc = "idle"
  /\ c > 1 => calls[c - 1].pc # "idle"
  /\ IF ~OpsHas(inp.name)
       THEN /\ calls' = [calls EXCEPT ![c] = Deliver(Issued(c, inp), NotFound(inp.name))]
            /\ UNCHANGED <<execs, dedupes, storage>>
       ELSE IF wrapped /\ ShouldWrap(OpsGet(inp.name))
              THEN CachedResolve(c, inp, OpsGet(inp.name))
              ELSE PlainResolve(c, inp)
  /\ UNCHANGED <<registrations, lookup, validation, operations, opsMap, mValidate, mCustomHandler, wrapped, cacheTTL, now>>

ValidatorSettles_Converted(e) ==
  /\ execs[e].pc = "validating"
  /\ LET x == execs[e]
         verdict == Verdict(x.validator, x.variables)
     IN IF verdict # "pass"
          THEN Settle(e, Failure("ValidationError", VerdictMessage(x.validator)))
          ELSE /\ execs' = [execs EXCEPT ![e] = AfterValidate(x)]
               /\ UNCHANGED <<calls, dedupes, storage>>
  /\ UNCHANGED <<registrations, lookup, validation, operations, opsMap, mValidate, mCustomHandler, wrapped, cacheTTL, now>>

\* the awaited validator settles
ValidatorSettles(e) ==
  /\ execs[e].pc = "validating"
  /\ LET x == execs[e]
         verdict == Verdict(x.validator, x.variables)
     IN IF IsValidationFailure(verdict)
          THEN Settle(e, Failure("ValidationError", VerdictMessage(x.validator)))
          ELSE IF verdict = "throw"
            THEN Settle(e, Failure("Error", <<"validator failed">>))
            ELSE /\ execs' = [execs EXCEPT ![e] = AfterValidate(x)]
                 /\ UNCHANGED <<calls, dedupes, storage>>
  /\ UNCHANGED <<registrations, lookup, validation, operations, opsMap, mValidate, mCustomHandler, wrapped, cacheTTL, now>>

\* the awaited override handler settles
OverrideSettles(e, handlerResponse) ==
  /\ execs[e].pc = "overriding"
  /\ Settle(e, OverrideResponse(execs[e].handler, e, handlerResponse))
  /\ UNCHANGED <<registrations, lookup, validation, operations, opsMap, mValidate, mCustomHandler, wrapped, cacheTTL, now>>

\* the awaited transport call settles: a response, or a failure
TransportSettles(e, ok) ==
  /\ execs[e].pc = "transport"
  /\ IF ok
       THEN Settle(e, Response("transport", e,
                     copyHeaders(UpstreamHeaders, {"content-encoding", "content-type"})))
       ELSE Settle(e, Failure("Error", <<"transport failed">>))
  /\ UNCHANGED <<registrations, lookup, validation, operations, opsMap, mValidate, mCustomHandler, wrapped, cacheTTL, now>>

setValidate_KeepFirst(held, validate) == IF held # NULL THEN held ELSE validate

\* this.mValidate = validate?.bind(this) ?? null
setValidate(held, validate) == validate

\* this.mCustomHandler = handler?.bind(this) ?? null
setCustomHandler(held, handler) == handler

AddValidation_Clears(n, v) ==
  /\ OpsHas(n)
  /\ mValidate' = [mValidate EXCEPT ![n] = setValidate(@, v)]
  /\ registrations' = [registrations EXCEPT !.validate[n] = v]
  /\ storage' = {s \in storage : s.name # n}
  /\ UNCHANGED <<lookup, validation, operations, opsMap, mCustomHandler, wrapped, cacheTTL,
                 dedupes, calls, execs, now>>

\* addValidation(document, validate): getOperation, then setValidate
AddValidation(n, v) ==
  /\ OpsHas(n)
  /\ mValidate' = [mValidate EXCEPT ![n] = setValidate(@, v)]
  /\ registrations' = [registrations EXCEPT !.validate[n] = v]
  /\ UNCHANGED <<lookup, validation, operations, opsMap, mCustomHandler, wrapped, cacheTTL, dedupes, storage,
                 calls, execs, now>>

\* addOverride(document, handler): getOperation, then setCustomHandler
AddOverride(n, h) ==
  /\ OpsHas(n)
  /\ mCustomHandler' = [mCustomHandler EXCEPT ![n] = setCustomHandler(@, h)]
  /\ registrations' = [registrations EXCEPT !.override[n] = h]
  /\ UNCHANGED <<lookup, validation, operations, opsMap, mValidate, wrapped, cacheTTL, dedupes, storage,
                 calls, execs, now>>

\* withCache(proxy.getOperations(), { cacheTTL: ttl })
WithCache(ttl) ==
  /\ ~wrapped
  /\ calls[1].pc = "idle"
  /\ wrapped' = TRUE
  /\ cacheTTL' = ttl
  /\ UNCHANGED <<registrations, lookup, validation, operations, opsMap, mValidate, mCustomHandler, dedupes, storage, calls,
                 execs, now>>

\* a second passes on the clock the cache storage reads
Tick ==
  /\ now < MaxTime
  /\ \/ storage # {}
     \/ \E d \in dedupes : EffectiveTTL(OpsGet(d.name)) > 0
  /\ now' = now + 1
  /\ UNCHANGED <<registrations, lookup, validation, operations, opsMap, mValidate, mCustomHandler, wrapped, cacheTTL, dedupes,
                 storage, calls, execs>>

\* The proxy in service: requests, their awaited steps, registrations at any
\* moment.  The clock stands still, so a stored entry stays valid.
Next ==
  \/ \E c \in DOMAIN calls, inp \in Inputs : Request(c, inp)
  \/ \E e \in DOMAIN calls : ValidatorSettles(e)
  \/ \E e \in DOMAIN calls, r \in HandlerResults : OverrideSettles(e, r)
  \/ \E e \in DOMAIN calls, ok \in BOOLEAN : TransportSettles(e, ok)
  \/ \E n \in RegOps, v \in Validators : AddValidation(n, v)
  \/ \E n \in RegOps, h \in Handlers : AddOverride(n, h)
  \/ \E ttl \in {0, GlobalTTL} : WithCache(ttl)

Spec == Init /\ [][Next]_vars

\* nothing has been requested yet
InSetup == calls[1].pc = "idle"

\* addValidation / addOverride called while the proxy is being set up
SetupValidation(n, v) == InSetup /\ AddValidation(n, v)

SetupOverride(n, h) == InSetup /\ AddOverride(n, h)

\* while time passes the value an override returns plays no part
TimedHandlerResults == {Obj(V1)}

\* The proxy in service while time passes: validators and overrides are
\* registered before the first request.
NextTimed ==
  \/ \E c \in DOMAIN calls, inp \in Inputs : Request(c, inp)
  \/ \E e \in DOMAIN calls : ValidatorSettles(e)
  \/ \E e \in DOMAIN calls, r \in TimedHandlerResults : OverrideSettles(e, r)
  \/ \E e \in DOMAIN calls, ok \in BOOLEAN : TransportSettles(e, ok)
  \/ \E n \in RegOps, v \in Validators : SetupValidation(n, v)
  \/ \E n \in RegOps, h \in Handlers : SetupOverride(n, h)
  \/ \E ttl \in {0, GlobalTTL} : WithCache(ttl)
  \/ Tick

SpecTimed == Init /\ [][NextTimed]_vars

-----------------------------------------------------------------------------
(* validate: the registered operations against the upstream schema *)

\* the schemas the introspection may describe: with every field the
\* operations query, or without the field y
Schemas == {"full", "withoutY"}

\* validate(schema, curr.document) of graphql: the errors of one operation
DocumentErrors(schema, def) ==
  IF schema = "withoutY" /\ def.operationName = "getY"
    THEN << <<"Cannot query field ", "y", def.operationName>> >>
    ELSE <<>>

\* opsToCheck.reduce((agg, curr) => [...agg, ...errs], [])
RECURSIVE ReduceErrors(_, _)
ReduceErrors(schema, defs) ==
  IF defs = <<>> THEN <<>>
  ELSE DocumentErrors(schema, Head(defs)) \o ReduceErrors(schema, Tail(defs))

OpsToCheck_All == opsMap

\* ops.filter((o) => !o.customHandler)
OpsToCheck == SelectSeq(opsMap, LAMBDA def : mCustomHandler[def.operationName] = NULL)

\* validate() up to its await: nothing to check returns [], otherwise the
\* introspection query goes to the transport
Validate ==
  /\ validation.pc # "introspecting"
  /\ validation' =
       IF Len(OpsToCheck) = 0
         THEN [NoValidation EXCEPT !.pc = "done"]
         ELSE [NoValidation EXCEPT !.pc = "introspecting", !.opsToCheck = OpsToCheck,
                                   !.dispatched = TRUE]
  /\ UNCHANGED <<registrations, lookup, operations, opsMap, mValidate, mCustomHandler, wrapped,
                 cacheTTL, dedupes, storage, calls, execs, now>>

\* the transport answers the introspection query: the errors are returned
IntrospectionSettles(schema) ==
  /\ validation.pc = "introspecting"
  /\ validation' = [validation EXCEPT !.pc = "done", !.schema = schema,
                                      !.errors = ReduceErrors(schema, validation.opsToCheck)]
  /\ UNCHANGED <<registrations, lookup, operations, opsMap, mValidate, mCustomHandler, wrapped,
                 cacheTTL, dedupes, storage, calls, execs, now>>

\* the transport fails: the promise of validate() rejects
IntrospectionFails ==
  /\ validation.pc = "introspecting"
  /\ validation' = [validation EXCEPT !.pc = "done", !.threw = TRUE]
  /\ UNCHANGED <<registrations, lookup, operations, opsMap, mValidate, mCustomHandler, wrapped,
                 cacheTTL, dedupes, storage, calls, execs, now>>

\* a proxy of the three operations, or of none
InitValidate ==
  /\ \E opers \in {Operations, <<>>} :
       /\ operations = opers
       /\ opsMap = OpsMapOf(opers)
  /\ mValidate = [n \in OpNames |-> NULL]
  /\ mCustomHandler = [n \in OpNames |-> NULL]
  /\ wrapped = FALSE
  /\ cacheTTL = 0
  /\ dedupes = {}
  /\ storage = {}
  /\ calls = [c \in 1..MaxCalls |-> IdleCall]
  /\ execs = [e \in 1..MaxCalls |-> NoExec]
  /\ now = 0
  /\ validation = NoValidation
  /\ lookup = NoLookup
  /\ registrations = NoRegistrations(DOMAIN mValidate)

NextValidate ==
  \/ Validate
  \/ \E schema \in Schemas : IntrospectionSettles(schema)
  \/ IntrospectionFails
  \/ \E n \in OpNames, h \in Handlers : AddOverride(n, h)
  \/ \E n \in RegOps, v \in Validators : AddValidation(n, v)

SpecValidate == InitValidate /\ [][NextValidate]_vars

-----------------------------------------------------------------------------
(* One key requested again and again while time passes *)

\* one more call than elsewhere: an execution, a hit, a call after the expiry
ExpiryCalls == MaxCalls + 1

\* a ttl of more than a second: an entry can be read after the second it was
\* stored in
ExpiryTTL == GlobalTTL + 1

ExpiryInputs ==
  { [name |-> "getY", variables |-> V1, headers |-> AuthA],
    [name |-> "getX", variables |-> V1, headers |-> AuthA] }

InitExpiry ==
  /\ operations = Operations
  /\ opsMap = OpsMapOf(Operations)
  /\ mValidate = [n \in OpNames |-> NULL]
  /\ mCustomHandler = [n \in OpNames |-> NULL]
  /\ wrapped = FALSE
  /\ cacheTTL = 0
  /\ dedupes = {}
  /\ storage = {}
  /\ calls = [c \in 1..ExpiryCalls |-> IdleCall]
  /\ execs = [e \in 1..ExpiryCalls |-> NoExec]
  /\ now = 0
  /\ validation = NoValidation
  /\ lookup = NoLookup
  /\ registrations = NoRegistrations(DOMAIN mValidate)

NextExpiry ==
  \/ \E c \in DOMAIN calls, inp \in ExpiryInputs : Request(c, inp)
  \/ \E e \in DOMAIN calls, ok \in BOOLEAN : TransportSettles(e, ok)
  \/ \E ttl \in {GlobalTTL, ExpiryTTL} : WithCache(ttl)
  \/ Tick

SpecExpiry == InitExpiry /\ [][NextExpiry]_vars

-----------------------------------------------------------------------------
(* Constructing the registry *)

\* the operations createGraphqlProxy may be handed: two share the name getX,
\* one document has no operation
Descriptors ==
  { [operationName |-> "getX", type |-> "query",    query |-> "query getX { x }",
     ttl |-> <<>>],
    [operationName |-> "getX", type |-> "mutation", query |-> "mutation getX { x }",
     ttl |-> <<PcachedTTL>>],
    [operationName |-> "getY", type |-> "query",    query |-> "query getY { y }",
     ttl |-> <<PcachedTTL>>],
    [operationName |-> "",     type |-> "",         query |-> "fragment f on X { x }",
     ttl |-> <<>>] }

DescriptorLists == UNION {[1..n -> Descriptors] : n \in 1..MaxOps}

RegistryInputs ==
  { [name |-> "getX", variables |-> V1, headers |-> AuthA],
    [name |-> "getY", variables |-> V1, headers |-> AuthA],
    [name |-> "nope", variables |-> V1, headers |-> AuthA] }

\* nothing constructed yet
InitRegistry ==
  /\ operations = <<>>
  /\ opsMap = <<>>
  /\ mValidate = [n \in OpNames |-> NULL]
  /\ mCustomHandler = [n \in OpNames |-> NULL]
  /\ wrapped = FALSE
  /\ cacheTTL = 0
  /\ dedupes = {}
  /\ storage = {}
  /\ calls = [c \in 1..MaxCalls |-> IdleCall]
  /\ execs = [e \in 1..MaxCalls |-> NoExec]
  /\ now = 0
  /\ validation = NoValidation
  /\ lookup = NoLookup
  /\ registrations = NoRegistrations(DOMAIN mValidate)

\* createGraphqlProxy(operations, request): throws on a malformed document
\* (no registry comes to exist), otherwise fills opsMap
CreateGraphqlProxy(opers) ==
  /\ operations = <<>>
  /\ operations' = opers
  /\ opsMap' = IF \E i \in 1..Len(opers) : IsMalformed(opers[i])
                 THEN <<>> ELSE OpsMapOf(opers)
  /\ UNCHANGED <<registrations, lookup, validation, mValidate, mCustomHandler, wrapped, cacheTTL,
                 dedupes, storage, calls, execs, now>>

\* request on a proxy that exists
RequestCreated(c, inp) == opsMap # <<>> /\ Request(c, inp)

\* proxy.getOperation(name) on a proxy that exists
GetOperation(name) ==
  /\ opsMap # <<>>
  /\ lookup' = getOperation(name)
  /\ UNCHANGED <<registrations, validation, operations, opsMap, mValidate, mCustomHandler, wrapped,
                 cacheTTL, dedupes, storage, calls, execs, now>>

NextRegistry ==
  \/ \E opers \in DescriptorLists : CreateGraphqlProxy(opers)
  \/ \E c \in DOMAIN calls, inp \in RegistryInputs : RequestCreated(c, inp)
  \/ \E n \in {"getX", "getY", "nope"} : GetOperation(n)
  \/ \E e \in DOMAIN calls, ok \in BOOLEAN : TransportSettles(e, ok)

SpecRegistry == InitRegistry /\ [][NextRegistry]_vars

-----------------------------------------------------------------------------
(* Constructing the registry from GraphQL documents *)

\* a directive with one argument, as parse yields it
Directive(name, arg, value) == [name |-> name, arg |-> arg, value |-> value]

\* parsed documents: type and name of the one operation ("" where the document
\* has none), its directives and its selection
Documents ==
  { [type |-> "query", operationName |-> "test", selection |-> "test",
     directives |-> << Directive("pcached", "ttl", Num(PcachedTTL)) >>],
    [type |-> "query", operationName |-> "abc", selection |-> "test",
     directives |-> << Directive("cached", "ttl", Num(PcachedTTL)) >>],
    [type |-> "query", operationName |-> "d", selection |-> "awaw",
     directives |-> <<>>],
    [type |-> "query", operationName |-> "e", selection |-> "test",
     directives |-> << Directive("cached", "ttl", Num(PcachedTTL)),
                       Directive("pcached", "max", Num(PcachedTTL)) >>],
    [type |-> "query", operationName |-> "", selection |-> "me",
     directives |-> <<>>] }

DocumentLists == UNION {[1..n -> Documents] : n \in 1..MaxOps}

\* the Directive visitor: cacheTTL = +intNode.value for the ttl argument of a
\* pcached directive, the later directive last
RECURSIVE PcachedTTLOf(_)
PcachedTTLOf(directives) ==
  IF directives = <<>> THEN <<>>
  ELSE LET d    == directives[Len(directives)]
           rest == PcachedTTLOf(SubSeq(directives, 1, Len(directives) - 1))
       IN IF d.name = "pcached" /\ d.arg = "ttl" /\ TypeOf(d.value) = "number"
            THEN <<d.value[2]>>
            ELSE rest

StripPcached_Nothing(directives) == directives

\* the visitor returns null for a pcached directive: the node is deleted
StripPcached(directives) == SelectSeq(directives, LAMBDA d : d.name # "pcached")

\* print(doc): the text of the document
PrintDocument(type, name, directives, selection) ==
  <<type, name, directives, <<"{", selection, "}">> >>

\* new OpsDef(doc, _requestRemote, { ttl: cacheTTL }) of a document
FromDocument(doc) ==
  [operationName |-> doc.operationName,
   type  |-> doc.type,
   query |-> PrintDocument(doc.type, doc.operationName, StripPcached(doc.directives),
                           doc.selection),
   ttl   |-> PcachedTTLOf(doc.directives)]

\* createGraphqlProxy(operations, request) with operations a record of
\* documents
CreateFromDocuments(docs) ==
  /\ operations = <<>>
  /\ operations' = docs
  /\ opsMap' = IF \E i \in 1..Len(docs) : IsMalformed(docs[i])
                 THEN <<>>
                 ELSE OpsMapOf([i \in 1..Len(docs) |-> FromDocument(docs[i])])
  /\ UNCHANGED <<registrations, lookup, validation, mValidate, mCustomHandler, wrapped, cacheTTL,
                 dedupes, storage, calls, execs, now>>

DocumentInputs ==
  { [name |-> "test", variables |-> <<>>, headers |-> <<>>],
    [name |-> "abc",  variables |-> <<>>, headers |-> <<>>],
    [name |-> "e",    variables |-> <<>>, headers |-> <<>>] }

InitDocuments ==
  /\ operations = <<>>
  /\ opsMap = <<>>
  /\ mValidate = [n \in {"test", "abc", "d", "e"} |-> NULL]
  /\ mCustomHandler = [n \in {"test", "abc", "d", "e"} |-> NULL]
  /\ wrapped = FALSE
  /\ cacheTTL = 0
  /\ dedupes = {}
  /\ storage = {}
  /\ calls = [c \in 1..MaxCalls |-> IdleCall]
  /\ execs = [e \in 1..MaxCalls |-> NoExec]
  /\ now = 0
  /\ validation = NoValidation
  /\ lookup = NoLookup
  /\ registrations = NoRegistrations(DOMAIN mValidate)

NextDocuments ==
  \/ \E docs \in DocumentLists : CreateFromDocuments(docs)
  \/ \E c \in DOMAIN calls, inp \in DocumentInputs : RequestCreated(c, inp)
  \/ \E e \in DOMAIN calls, ok \in BOOLEAN : TransportSettles(e, ok)

SpecDocuments == InitDocuments /\ [][NextDocuments]_vars

-----------------------------------------------------------------------------
(* Requests that differ in the insertion order of their properties only *)

VAB == << <<"a", 1>>, <<"b", 2>> >>

VBA == << <<"b", 2>>, <<"a", 1>> >>

VAB3 == << <<"a", 1>>, <<"b", 3>> >>

RoleThenH ==
  << <<"authorization", "a">>, <<"x-hasura-role", "admin">>, <<"x-hasura-h", "1">> >>

HThenRole ==
  << <<"x-hasura-h", "1">>, <<"authorization", "a">>, <<"x-hasura-role", "admin">> >>

OrderInputs ==
  { [name |-> "getX", variables |-> v, headers |-> h] :
      v \in {VAB, VBA, VAB3}, h \in {RoleThenH, HThenRole} }

\* The cache-wrapped proxy serving such requests
NextOrder ==
  \/ \E c \in DOMAIN calls, inp \in OrderInputs : Request(c, inp)
  \/ \E e \in DOMAIN calls, ok \in BOOLEAN : TransportSettles(e, ok)
  \/ \E ttl \in {0, GlobalTTL} : WithCache(ttl)

SpecOrder == Init /\ [][NextOrder]_vars

-----------------------------------------------------------------------------
(* The framework handlers: createNextHandler, createEdgeHandler *)

Adapters == {"next", "edge"}

\* HTTP requests: the method, the JSON body (POST) or the query parameters
\* (GET), and the headers
HttpRequests ==
  { [method |-> "POST", headers |-> AuthA,
     payload |-> << <<"op", Str("getX")>>, <<"v", Obj(V1)>> >>],
    [method |-> "POST", headers |-> AuthA,
     payload |-> << <<"operation", Str("getX")>>, <<"variables", Obj(V2)>> >>],
    [method |-> "GET", headers |-> AuthA,
     payload |-> << <<"op", Str("getX")>>, <<"v", Str("{\"id\":1}")>> >>],
    [method |-> "POST", headers |-> AuthA,
     payload |-> << <<"operationName", Str("getX")>>, <<"variables", Obj(V2)>> >>],
    [method |-> "POST", headers |-> AuthA,
     payload |-> << <<"op", Str("nope")>>, <<"v", Obj(V1)>> >>],
    [method |-> "PUT", headers |-> AuthA,
     payload |-> << <<"op", Str("getX")>>, <<"v", Obj(V1)>> >>],
    [method |-> "GET", headers |-> AuthA,
     payload |-> << <<"v", Str("{\"id\":1}")>> >>],
    [method |-> "POST", headers |-> AuthA,
     payload |-> << <<"op", Num(7)>>, <<"v", Obj(V1)>> >>],
    [method |-> "POST", headers |-> AuthA,
     payload |-> << <<"op", Str("")>>, <<"operation", Str("getX")>>, <<"v", Obj(V1)>> >>],
    [method |-> "GET", headers |-> AuthA,
     payload |-> << <<"query", Str("getX")>>, <<"variables", Str("{id:1}")>> >>],
    [method |-> "GET", headers |-> AuthA,
     payload |-> << <<"operation", Str("getY")>> >>],
    [method |-> "GET", headers |-> AuthA,
     payload |-> << <<"query", Str("getY")>>, <<"variables", Str("{\"id\":2}")>> >>] }

\* validators of the handler runs: "vThrow" throws
HttpValidators == {"vMin", "vThrow"}

\* defaultParseFn / handle: the payload parsed by method
Parse(req) ==
  IF req.method = "POST" THEN fromPostRequest(req.payload)
                         ELSE fromGetRequest(req.payload)

IsOperation_AnyString(operation) == TypeOf(operation) = "string"

\* the negation of (!operation || typeof operation !== 'string')
IsOperation(operation) == ~IsFalsy(operation) /\ TypeOf(operation) = "string"

\* the variables handed to proxy.request; undefined has no properties
ToVariables(v) == IF TypeOf(v) = "object" THEN v[2] ELSE <<>>

\* the handler answers by itself, proxy.request is not called
Answer(c, adapter, req, response) ==
  /\ calls' = [calls EXCEPT ![c] = [calls[c] EXCEPT !.pc = "done", !.adapter = adapter,
                                                    !.req = req, !.issuedAt = now,
                                                    !.response = response]]
  /\ UNCHANGED <<registrations, lookup, validation, operations, opsMap, mValidate, mCustomHandler, wrapped, cacheTTL, dedupes,
                 storage, execs, now>>

\* a parse that throws: createNextHandler answers 500, the promise of
\* createEdgeHandler's handle rejects (status 0: no response)
ParseFailure(adapter, message) ==
  IF adapter \in {"next", NextWithResultHeaders}
    THEN sendError(<<message>>, 500) ELSE sendError(<<message>>, 0)

HandlesMethod_Any(method) == method \in {"POST", "GET", "PUT"}

\* req.method === 'POST' or req.method === 'GET'
HandlesMethod(method) == method \in {"POST", "GET"}

\* handle(req) up to its first await
Handle(c, adapter, req) ==
  /\ calls[c].pc = "idle"
  /\ c > 1 => (calls[c - 1].pc # "idle" /\ calls[1].adapter = adapter)
  /\ IF ~HandlesMethod(req.method)
       THEN Answer(c, adapter, req, sendError(<<"not-found">>, 404))
       ELSE LET parsed == Parse(req)
            IN IF TypeOf(parsed.variables) = "throw"
                 THEN Answer(c, adapter, req, ParseFailure(adapter, parsed.variables[2]))
                 ELSE IF ~IsOperation(parsed.operation)
                   THEN Answer(c, adapter, req, sendError(<<"no operation defined">>, 404))
                   ELSE Request(c, [name |-> parsed.operation[2],
                                    variables |-> ToVariables(parsed.variables),
                                    headers |-> req.headers,
                                    adapter |-> adapter, req |-> req])

\* the awaited override handler throws
OverrideThrows(e) ==
  /\ execs[e].pc = "overriding"
  /\ Settle(e, Failure("Error", <<"override failed">>))
  /\ UNCHANGED <<registrations, lookup, validation, operations, opsMap, mValidate, mCustomHandler, wrapped, cacheTTL, now>>

\* A handler in service: the proxy is set up (onCreate, withCache) before the
\* first request arrives.
NextHttp ==
  \/ \E c \in DOMAIN calls, adapter \in Adapters, req \in HttpRequests :
       Handle(c, adapter, req)
  \/ \E e \in DOMAIN calls : ValidatorSettles(e)
  \/ \E e \in DOMAIN calls, r \in HandlerResults : OverrideSettles(e, r)
  \/ \E e \in DOMAIN calls : OverrideThrows(e)
  \/ \E e \in DOMAIN calls, ok \in BOOLEAN : TransportSettles(e, ok)
  \/ \E n \in RegOps, v \in HttpValidators : SetupValidation(n, v)
  \/ \E n \in RegOps, h \in Handlers : SetupOverride(n, h)
  \/ \E ttl \in {0, GlobalTTL} : WithCache(ttl)

SpecHttp == Init /\ [][NextHttp]_vars

\* the requests sent to the handler created with options.resultHeaders
HeaderRequests ==
  { [method |-> "POST", headers |-> AuthA,
     payload |-> << <<"op", Str("getX")>>, <<"v", Obj(V1)>> >>],
    [method |-> "POST", headers |-> AuthB,
     payload |-> << <<"op", Str("getX")>>, <<"v", Obj(V2)>> >>],
    [method |-> "GET", headers |-> AuthA,
     payload |-> << <<"operation", Str("getY")>> >>],
    [method |-> "POST", headers |-> AuthA,
     payload |-> << <<"op", Str("nope")>>, <<"v", Obj(V1)>> >>] }

\* That handler in service
NextHeaders ==
  \/ \E c \in DOMAIN calls, req \in HeaderRequests :
       Handle(c, NextWithResultHeaders, req)
  \/ \E e \in DOMAIN calls, r \in HandlerResults : OverrideSettles(e, r)
  \/ \E e \in DOMAIN calls, ok \in BOOLEAN : TransportSettles(e, ok)
  \/ \E n \in RegOps, h \in Handlers : SetupOverride(n, h)
  \/ \E ttl \in {0, GlobalTTL} : WithCache(ttl)

SpecHeaders == Init /\ [][NextHeaders]_vars

-----------------------------------------------------------------------------
(* Vocabulary of the properties *)

Calls == DOMAIN calls

IsIssued(c) == calls[c].pc # "idle"

\* the authorization value of a header collection, if any
AuthOf(headers) ==
  IF Has(headers, "authorization") THEN <<Get(headers, "authorization")>> ELSE <<>>

\* the x-hasura-* headers of a collection as a map from lower-cased name to value
HasuraOf(headers) ==
  {<<ToLowerCase(p[1]), p[2]>> : p \in {q \in Entries(headers) :
                                          StartsWithXHasura(ToLowerCase(q[1]))}}

\* same operation name, variables, authorization value and x-hasura-* headers
SameKeyParts(a, b) ==
  /\ a.name = b.name
  /\ a.variables = b.variables
  /\ AuthOf(a.headers) = AuthOf(b.headers)
  /\ HasuraOf(a.headers) = HasuraOf(b.headers)

\* the call is to a query of a proxy that withCache was applied to
IsWrappedQuery(c) ==
  wrapped /\ OpsHas(calls[c].name) /\ OpsGet(calls[c].name).type = "query"

\* the ttl N of a call's operation in seconds: the operation's behaviour.ttl
\* when it has one, else the cacheTTL handed to withCache
TTLOf(c) ==
  LET behaviour == OpsGet(calls[c].name).ttl
  IN IF behaviour # <<>> THEN behaviour[1] ELSE cacheTTL

IsRunning(e) == execs[e].pc \in {"validating", "overriding", "transport"}

-----------------------------------------------------------------------------
\* C1: identical calls to a cache-wrapped query issued while the first call's
\* execution is unresolved wait on that same execution (the resolver runs once
\* for all of them), and every caller of one execution receives the execution's
\* result, the same for all.
C1_DedupesInFlight ==
  /\ \A a, b \in Calls :
       ( /\ a < b /\ IsIssued(b)
         /\ IsWrappedQuery(a) /\ IsWrappedQuery(b)
         /\ calls[a].pc = "pending"
         /\ SameKeyParts(calls[a], calls[b]) )
       => (calls[b].pc = "pending" /\ calls[b].exec = calls[a].exec)
  /\ \A c \in Calls :
       (calls[c].pc = "done" /\ IsWrappedQuery(c) /\ calls[c].exec # 0)
       => (execs[calls[c].exec].pc = "done" /\ calls[c].result = execs[calls[c].exec].result)
  /\ \A e1, e2 \in Calls :
       (IsRunning(e1) /\ IsRunning(e2) /\ IsWrappedQuery(e1) /\ IsWrappedQuery(e2)
        /\ SameKeyParts(execs[e1], execs[e2]))
       => e1 = e2

C1_Witness ==
  \E a, b \in Calls :
    /\ a < b /\ IsWrappedQuery(a) /\ IsWrappedQuery(b)
    /\ SameKeyParts(calls[a], calls[b])
    /\ calls[a].pc = "done" /\ calls[b].pc = "done"
    /\ calls[a].exec = a /\ calls[b].exec = a
    /\ execs[a].dispatched /\ execs[b].pc = "none"
    /\ calls[a].result.kind = "ok" /\ calls[b].result = calls[a].result

\* C2: a caller of a cache-wrapped query only ever waits on, and only ever
\* receives a value from, an execution that ran with its own authorization
\* value; two calls with different authorization values never share an
\* execution or a value.
C2_AuthIsolation ==
  /\ \A c \in Calls :
       (IsIssued(c) /\ IsWrappedQuery(c)) =>
         /\ calls[c].exec # 0 =>
              AuthOf(execs[calls[c].exec].headers) = AuthOf(calls[c].headers)
         /\ calls[c].result.kind = "ok" =>
              AuthOf(execs[calls[c].result.exec].headers) = AuthOf(calls[c].headers)
  /\ \A a, b \in Calls :
       ( /\ IsIssued(a) /\ IsIssued(b)
         /\ IsWrappedQuery(a) /\ IsWrappedQuery(b)
         /\ AuthOf(calls[a].headers) # AuthOf(calls[b].headers) )
       => /\ (calls[a].exec # 0 /\ calls[b].exec # 0) => calls[a].exec # calls[b].exec
          /\ (calls[a].result.kind = "ok" /\ calls[b].result.kind = "ok")
               => calls[a].result.exec # calls[b].result.exec

C2_Witness ==
  \E a, b \in Calls :
    /\ a < b /\ IsWrappedQuery(a) /\ IsWrappedQuery(b)
    /\ calls[a].name = calls[b].name /\ calls[a].variables = calls[b].variables
    /\ AuthOf(calls[a].headers) = <<"a">> /\ AuthOf(calls[b].headers) = <<"b">>
    /\ TTLOf(a) > 0 /\ calls[a].issuedAt = calls[b].issuedAt
    /\ execs[a].dispatched /\ execs[b].dispatched
    /\ calls[a].result.kind = "ok" /\ calls[b].result.kind = "ok"
    /\ calls[a].result.exec = a /\ calls[b].result.exec = b

\* C3: a caller of a cache-wrapped query only ever waits on, and only ever
\* receives a value from, an execution that ran with its own variables and its
\* own x-hasura-* headers; two calls that differ in either never share an
\* execution or a value.
C3_VariablesAndHasuraIsolation ==
  /\ \A c \in Calls :
       (IsIssued(c) /\ IsWrappedQuery(c)) =>
         /\ calls[c].exec # 0 =>
              /\ Entries(execs[calls[c].exec].variables) = Entries(calls[c].variables)
              /\ HasuraOf(execs[calls[c].exec].headers) = HasuraOf(calls[c].headers)
         /\ calls[c].result.kind = "ok" =>
              /\ Entries(execs[calls[c].result.exec].variables) = Entries(calls[c].variables)
              /\ HasuraOf(execs[calls[c].result.exec].headers) = HasuraOf(calls[c].headers)
  /\ \A a, b \in Calls :
       ( /\ IsIssued(a) /\ IsIssued(b)
         /\ IsWrappedQuery(a) /\ IsWrappedQuery(b)
         /\ \/ Entries(calls[a].variables) # Entries(calls[b].variables)
            \/ HasuraOf(calls[a].headers) # HasuraOf(calls[b].headers) )
       => /\ (calls[a].exec # 0 /\ calls[b].exec # 0) => calls[a].exec # calls[b].exec
          /\ (calls[a].result.kind = "ok" /\ calls[b].result.kind = "ok")
               => calls[a].result.exec # calls[b].result.exec

C3_Witness ==
  \E a, b \in Calls :
    /\ a < b /\ IsWrappedQuery(a) /\ IsWrappedQuery(b)
    /\ calls[a].name = calls[b].name /\ calls[a].variables = calls[b].variables
    /\ AuthOf(calls[a].headers) = AuthOf(calls[b].headers)
    /\ HasuraOf(calls[a].headers) = {}
    /\ HasuraOf(calls[b].headers) = {<<"x-hasura-role", "admin">>}
    /\ execs[a].pc = "transport" /\ execs[b].pc = "transport"
    /\ calls[a].exec = a /\ calls[b].exec = b

EntriesFor(call) == {s \in storage : SameKeyParts(execs[s.value.exec], call)}

\* C5: a call to a cache-wrapped query issued when the matching entry has
\* expired is not served from it: the call starts an execution of its own; and
\* an execution that succeeds under a ttl of at least a second leaves an entry
\* holding its result, starting at the time it resolved.
C5_ExpiredNotServed ==
  [][ /\ \A c \in Calls :
           ( /\ calls[c].pc = "idle" /\ calls'[c].pc # "idle"
             /\ IsWrappedQuery(c)'
             /\ \E s \in EntriesFor(calls'[c]) : s.start + TTLOf(c)' <= now )
           => /\ ~calls'[c].hit
              /\ calls'[c].pc = "pending"
              /\ calls'[c].exec = c
              /\ execs'[c].pc \in {"validating", "overriding", "transport"}
      /\ \A e \in Calls :
           ( /\ execs[e].pc # "done" /\ execs'[e].pc = "done"
             /\ IsWrappedQuery(e)
             /\ execs'[e].result.kind = "ok"
             /\ TTLOf(e) >= 1 )
           => \E s \in storage' : /\ s.value = execs'[e].result
                                 /\ s.start = now
                                 /\ s.ttl = TTLOf(e)
    ]_vars

\* a second execution ran for a key whose first result had been stored
C5_Witness ==
  \E a, b \in Calls :
    /\ a < b /\ IsWrappedQuery(a) /\ IsWrappedQuery(b)
    /\ SameKeyParts(calls[a], calls[b])
    /\ TTLOf(a) > 0
    /\ calls[a].result.kind = "ok" /\ calls[a].result.exec = a
    /\ calls[b].issuedAt >= calls[a].issuedAt + TTLOf(a)
    /\ calls[b].exec = b /\ calls[b].result.kind = "ok" /\ calls[b].result.exec = b
    /\ \E s \in storage : s.value = calls[b].result

\* the executions of a call's key that have succeeded
SucceededFor(call) ==
  {e \in Calls : /\ execs[e].pc = "done" /\ execs[e].result.kind = "ok"
                 /\ SameKeyParts(execs[e], call)}

\* C14: a call to a cache-wrapped query with ttl N > 0 is served from the
\* cache exactly when an execution of its key resolved successfully less than
\* N seconds before the call is issued, whenever the first call of the key was
\* issued: the entry is valid for N seconds counted from the resolution, and
\* the call then returns that execution's result without an execution of its
\* own.
C14_ValidFromResolution ==
  [][ \A c \in Calls :
        ( /\ calls[c].pc = "idle" /\ calls'[c].pc # "idle"
          /\ IsWrappedQuery(c)' /\ TTLOf(c)' > 0 )
        => /\ \A e \in SucceededFor(calls'[c]) :
                now - execs[e].resolvedAt < TTLOf(c)'
                => /\ calls'[c].hit /\ calls'[c].pc = "done"
                   /\ calls'[c].result = execs[e].result
                   /\ execs'[c] = execs[c]
           /\ calls'[c].hit
                => \E e \in SucceededFor(calls'[c]) :
                     now - execs[e].resolvedAt < TTLOf(c)'
    ]_vars

\* the first call of the key was issued more than N seconds before the second,
\* its execution resolved less than N seconds before it: the second is served
\* from the entry
C14_Witness ==
  \E a, b \in Calls :
    /\ a # b /\ IsWrappedQuery(a) /\ IsWrappedQuery(b)
    /\ SameKeyParts(calls[a], calls[b])
    /\ TTLOf(a) > 0
    /\ calls[a].exec = a /\ execs[a].pc = "done" /\ execs[a].result.kind = "ok"
    /\ calls[b].issuedAt - calls[a].issuedAt > TTLOf(a)
    /\ calls[b].issuedAt - execs[a].resolvedAt < TTLOf(a)
    /\ calls[b].hit /\ calls[b].result = execs[a].result

\* C15: serving a call from a stored entry leaves the entry as it is (its
\* start and ttl are not renewed), and a call to a cache-wrapped query with ttl
\* N > 0 issued when every successful execution of its key resolved N seconds
\* ago or earlier, and none is running, starts an execution of its own, however
\* many calls were served from the entry before.
C15_NoRefreshOnRead ==
  [][ \A c \in Calls :
        ( /\ calls[c].pc = "idle" /\ calls'[c].pc # "idle"
          /\ IsWrappedQuery(c)' /\ TTLOf(c)' > 0 )
        => /\ calls'[c].hit => storage' = storage
           /\ ( /\ SucceededFor(calls'[c]) # {}
                /\ \A e \in SucceededFor(calls'[c]) :
                     now >= execs[e].resolvedAt + TTLOf(c)'
                /\ ~\E e \in Calls : IsRunning(e) /\ SameKeyParts(execs[e], calls'[c]) )
              => /\ ~calls'[c].hit
                 /\ calls'[c].pc = "pending" /\ calls'[c].exec = c
                 /\ IsRunning(c)'
    ]_vars

\* an execution, a call served from its entry, and after the expiry of that
\* entry a call that ran an execution of its own
C15_Witness ==
  \E a, b, c \in Calls :
    /\ a < b /\ b < c
    /\ IsWrappedQuery(a)
    /\ SameKeyParts(calls[a], calls[b]) /\ SameKeyParts(calls[a], calls[c])
    /\ TTLOf(a) > 0
    /\ calls[a].exec = a /\ execs[a].pc = "done" /\ execs[a].result.kind = "ok"
    /\ calls[b].hit /\ calls[b].result = execs[a].result
    /\ calls[b].issuedAt > execs[a].resolvedAt
    /\ calls[c].issuedAt >= execs[a].resolvedAt + TTLOf(a)
    /\ ~calls[c].hit /\ calls[c].exec = c /\ execs[c].dispatched

\* C6: every call to a mutation runs an execution of its own and is never
\* served from the cache, with or without withCache and whatever the ttls.
C6_MutationsNeverShared ==
  \A c \in Calls :
    (IsIssued(c) /\ OpsHas(calls[c].name) /\ OpsGet(calls[c].name).type = "mutation")
    => /\ calls[c].exec = c
       /\ ~calls[c].hit
       /\ execs[c].pc # "none"
       /\ calls[c].result.kind = "ok" => calls[c].result.exec = c
       /\ \A s \in storage : s.name # calls[c].name
       /\ \A d \in dedupes : d.name # calls[c].name

C6_Witness ==
  \E a, b \in Calls :
    /\ a < b /\ wrapped /\ cacheTTL > 0
    /\ calls[a].name = "setX" /\ SameKeyParts(calls[a], calls[b])
    /\ OpsGet("setX").ttl # <<>>
    /\ execs[a].pc = "transport" /\ execs[b].pc = "transport"
    /\ calls[a].pc = "pending" /\ calls[b].pc = "pending"

\* C7: a call naming an operation that is not registered has failed with
\* NotFoundError as soon as it is issued, and no validator, override or
\* transport was ever invoked for it.
C7_UnknownOperationNotFound ==
  \A c \in Calls :
    (IsIssued(c) /\ ~OpsHas(calls[c].name))
    => /\ calls[c].pc = "done"
       /\ calls[c].result.kind = "NotFoundError"
       /\ calls[c].result.message = <<"operation ", calls[c].name, " not found">>
       /\ calls[c].exec = 0
       /\ execs[c].pc = "none"
       /\ ~execs[c].dispatched /\ execs[c].validator = NULL /\ execs[c].handler = NULL

C7_Witness ==
  \E c \in Calls :
    /\ calls[c].name = "nope" /\ calls[c].pc = "done"
    /\ calls[c].result.kind = "NotFoundError"
    /\ wrapped /\ mCustomHandler["getX"] # NULL

\* C8: an execution whose validator yields a validation failure for the
\* variables invokes neither the override nor the transport, and settles with
\* ValidationError carrying the failure's message, which is what its callers get.
C8_ValidationFailureStops ==
  \A e \in Calls :
    (execs[e].validator # NULL /\ Verdict(execs[e].validator, execs[e].variables) = "invalid")
    => /\ execs[e].pc \in {"validating", "done"}
       /\ ~execs[e].dispatched
       /\ execs[e].handler = NULL
       /\ execs[e].sent = <<>>
       /\ execs[e].pc = "done" =>
            /\ execs[e].result.kind = "ValidationError"
            /\ execs[e].result.message = VerdictMessage(execs[e].validator)
            /\ \A c \in Calls : calls[c].exec = e =>
                 (calls[c].pc = "done" /\ calls[c].result = execs[e].result)

C8_Witness ==
  \E e \in Calls :
    /\ execs[e].validator = "vMin" /\ Get(execs[e].variables, "id") = 1
    /\ execs[e].pc = "done"
    /\ calls[e].pc = "done" /\ calls[e].result.kind = "ValidationError"
    /\ calls[e].result.message = <<"notvalid">>
    /\ ~execs[e].dispatched

\* C9: no step invokes the transport for an operation that has an override
\* registered at that moment.
C9_OverrideBypassesTransport ==
  [][ \A e \in Calls :
        (~execs[e].dispatched /\ execs'[e].dispatched)
        => mCustomHandler[execs'[e].name] = NULL ]_vars

C9_Witness ==
  \E e \in Calls :
    /\ IsWrappedQuery(e) /\ execs[e].handler = "h1"
    /\ execs[e].pc = "done" /\ execs[e].result.kind = "ok"
    /\ ~execs[e].dispatched
    /\ calls[e].result.by = "h1"

\* the names that must never reach the transport
ForbiddenHeaders == {"host", "connection", "keep-alive", "transfer-encoding", "content-length"}

\* C10: the header collection handed to the transport holds none of host,
\* connection, keep-alive, transfer-encoding and content-length.
C10_ForbiddenHeadersRemoved ==
  \A e \in Calls :
    execs[e].dispatched => Keys(execs[e].sent) \cap ForbiddenHeaders = {}

-----------------------------------------------------------------------------
(* The handlers *)

\* the call came in through a handler
ViaHandler(c) == calls[c].adapter # ""

\* the handler called proxy.request for the call
Requested(c) == calls[c].name # "" \/ calls[c].result # Pending

\* C11: once proxy.request has settled for a request that came through a
\* handler, the handler has answered 200 when it succeeded, 404 with the
\* error's message for NotFoundError, 400 with the validator's message for
\* ValidationError, and 500 with the error's message when the validator, the
\* override or the transport threw.
C11_FailuresMappedToStatus ==
  \A c \in Calls :
    (ViaHandler(c) /\ calls[c].pc = "done" /\ Requested(c)) =>
      LET r == calls[c].result
          x == execs[calls[c].exec]
      IN /\ r.kind = "ok" => calls[c].response.status = 200
         /\ ~OpsHas(calls[c].name) =>
              (calls[c].response.status = 404 /\ calls[c].response.message = r.message)
         /\ (OpsHas(calls[c].name) /\ r.kind # "ok") =>
              IF x.validator # NULL /\ Verdict(x.validator, x.variables) = "invalid"
                THEN /\ calls[c].response.status = 400
                     /\ calls[c].response.message = VerdictMessage(x.validator)
                ELSE /\ calls[c].response.status = 500
                     /\ calls[c].response.message = r.message
                     /\ r.message \in {<<"validator failed">>, <<"override failed">>,
                                       <<"transport failed">>}

\* one request was refused by the validator, the next failed in the transport
C11_Witness ==
  \E a, b \in Calls :
    /\ ViaHandler(a) /\ ViaHandler(b)
    /\ calls[a].result.kind = "ValidationError" /\ calls[a].response.status = 400
    /\ calls[a].response.message = <<"notvalid">>
    /\ execs[b].dispatched /\ calls[b].exec = b
    /\ calls[b].result.kind = "Error" /\ calls[b].response.status = 500

\* C19: a request with a method other than GET and POST is answered 404
\* 'not-found', and proxy.request, validator, override and transport are not
\* called for it.
C19_OtherMethodsNotFound ==
  \A c \in Calls :
    (ViaHandler(c) /\ calls[c].req.method \notin {"GET", "POST"}) =>
      /\ calls[c].pc = "done"
      /\ calls[c].response.status = 404
      /\ calls[c].response.message = <<"not-found">>
      /\ ~Requested(c)
      /\ calls[c].exec = 0 /\ execs[c].pc = "none"
      /\ ~execs[c].dispatched /\ execs[c].validator = NULL /\ execs[c].handler = NULL

C19_Witness ==
  \E c \in Calls :
    /\ ViaHandler(c) /\ calls[c].req.method = "PUT"
    /\ calls[c].response.status = 404
    /\ mValidate["getX"] # NULL /\ mCustomHandler["getX"] # NULL

\* the operation of a request as its parser yields it; the parse succeeded
ParsedOperation(c) == Parse(calls[c].req).operation

ParseSucceeded(c) == TypeOf(Parse(calls[c].req).variables) # "throw"

\* C20: a GET or POST request whose parsed operation is missing, empty or not
\* a string is answered 404 'no operation defined' with no registry lookup and
\* no dispatch; one whose operation is a string that is not registered is
\* answered 404 'operation <name> not found'.
C20_NoOperationDefined ==
  \A c \in Calls :
    (ViaHandler(c) /\ calls[c].req.method \in {"GET", "POST"} /\ ParseSucceeded(c)) =>
      LET operation == ParsedOperation(c)
      IN /\ ( \/ TypeOf(operation) # "string"
              \/ operation[2] = "" ) =>
              /\ calls[c].pc = "done"
              /\ calls[c].response.status = 404
              /\ calls[c].response.message = <<"no operation defined">>
              /\ ~Requested(c)
              /\ calls[c].exec = 0 /\ execs[c].pc = "none"
         /\ ( /\ TypeOf(operation) = "string" /\ operation[2] # ""
              /\ ~OpsHas(operation[2]) ) =>
              /\ calls[c].pc = "done"
              /\ calls[c].response.status = 404
              /\ calls[c].response.message = <<"operation ", operation[2], " not found">>
              /\ execs[c].pc = "none"

C20_Witness ==
  \E a, b \in Calls :
    /\ ViaHandler(a) /\ ViaHandler(b)
    /\ calls[a].req.method = "POST" /\ ParsedOperation(a) = Str("")
    /\ calls[a].response.message = <<"no operation defined">>
    /\ calls[b].req.method = "POST" /\ ParsedOperation(b) = Str("nope")
    /\ calls[b].response.status = 404

-----------------------------------------------------------------------------
(* The cache key *)

\* the x-hasura-* headers of a collection under the names they were sent with
HasuraEntries(headers) ==
  {p \in Entries(headers) : StartsWithXHasura(ToLowerCase(p[1]))}

\* same operation, the same variables and x-hasura-* headers as maps, the same
\* authorization value
SamePartsUpToOrder(a, b) ==
  /\ a.name = b.name
  /\ Entries(a.variables) = Entries(b.variables)
  /\ AuthOf(a.headers) = AuthOf(b.headers)
  /\ HasuraEntries(a.headers) = HasuraEntries(b.headers)

\* the default key of a call
KeyOf(c) == cacheKeySerialize([variables |-> calls[c].variables,
                               headers |-> calls[c].headers])

\* C12: two calls to a cache-wrapped query whose variables and x-hasura-*
\* headers hold the same keys and values, in whatever insertion order, have the
\* same cache key, share the execution in flight, share the entry (the later
\* call gets the stored value), and never leave two entries behind.
C12_KeyOrderIndependent ==
  \A a, b \in Calls :
    ( /\ a < b /\ IsIssued(b)
      /\ IsWrappedQuery(a) /\ IsWrappedQuery(b)
      /\ SamePartsUpToOrder(calls[a], calls[b]) )
    => /\ KeyOf(a) = KeyOf(b)
       /\ calls[a].pc = "pending" => (calls[b].pc = "pending" /\ calls[b].exec = calls[a].exec)
       /\ (TTLOf(a) > 0 /\ calls[a].exec # 0 /\ calls[a].result.kind = "ok") =>
            (calls[b].pc = "done" /\ calls[b].result = calls[a].result)
       /\ Cardinality({s \in storage : s.name = calls[a].name
                                        /\ s.key \in {KeyOf(a), KeyOf(b)}}) <= 1

\* the second call, with both objects in another order, was served from the
\* entry of the first
C12_Witness ==
  \E a, b \in Calls :
    /\ a < b /\ IsWrappedQuery(a) /\ IsWrappedQuery(b)
    /\ calls[a].variables = VAB /\ calls[b].variables = VBA
    /\ calls[a].headers = RoleThenH /\ calls[b].headers = HThenRole
    /\ calls[a].result.kind = "ok" /\ execs[a].dispatched
    /\ calls[b].hit /\ calls[b].result = calls[a].result
    /\ execs[b].pc = "none"

-----------------------------------------------------------------------------
(* The registry *)

\* createGraphqlProxy has returned a proxy
Created == opsMap # <<>>

SuppliedNames == {operations[i].operationName : i \in 1..Len(operations)}

HasDuplicateNames ==
  \E i, j \in 1..Len(operations) :
    i # j /\ operations[i].operationName = operations[j].operationName

-----------------------------------------------------------------------------
(* Overrides *)

\* the execution of call c awaited the override of its operation
RanOverride(c) == calls[c].exec # 0 /\ execs[calls[c].exec].handler # NULL

-----------------------------------------------------------------------------
(* Parsing requests *)

\* the value of the first of the parameters `names` a query string or body
\* carries, undefined when it carries none
RECURSIVE FirstPresent(_, _)
FirstPresent(q, names) ==
  IF names = <<>> THEN Undefined
  ELSE IF Has(q, Head(names)) THEN Get(q, Head(names))
  ELSE FirstPresent(q, Tail(names))

\* ?op=getX&v=%7B%22id%22%3A1%7D as searchParams / req.query present it
ExampleQuery == << <<"op", Str("getX")>>, <<"v", Str("{\"id\":1}")>> >>

\* C17: for a GET request the parser yields as operation the value of op, else
\* of operation, else of query, and as variables the JSON-decoded value of v,
\* else of variables, undefined when neither is there; ?op=getX&v={"id":1}
\* (percent-encoded) yields operation "getX" and variables {id: 1}; and these
\* are the name and variables the handler requests from the proxy.
C17_GetParse ==
  \A c \in Calls :
    (ViaHandler(c) /\ calls[c].req.method = "GET") =>
      LET q      == calls[c].req.payload
          parsed == fromGetRequest(q)
          raw    == FirstPresent(q, <<"v", "variables">>)
      IN /\ parsed.operation = FirstPresent(q, <<"op", "operation", "query">>)
         /\ TypeOf(raw) = "undefined" => parsed.variables = Undefined
         /\ (TypeOf(raw) = "string" /\ raw[2] # "") => parsed.variables = JSONParse(raw[2])
         /\ q = ExampleQuery =>
              parsed = [operation |-> Str("getX"), variables |-> Obj(V1)]
         /\ Requested(c) =>
              /\ Str(calls[c].name) = parsed.operation
              /\ calls[c].variables = ToVariables(parsed.variables)

\* the example was requested as getX with {id: 1}; a request naming its
\* operation under `operation` and carrying no variables was requested as getY
C17_Witness ==
  \E a, b \in Calls :
    /\ ViaHandler(a) /\ calls[a].req.method = "GET"
    /\ calls[a].req.payload = ExampleQuery
    /\ calls[a].name = "getX" /\ calls[a].variables = V1 /\ calls[a].exec = a
    /\ ViaHandler(b) /\ calls[b].req.method = "GET"
    /\ ~Has(calls[b].req.payload, "op") /\ ~Has(calls[b].req.payload, "v")
    /\ ~Has(calls[b].req.payload, "variables")
    /\ fromGetRequest(calls[b].req.payload).variables = Undefined
    /\ calls[b].name = "getY" /\ calls[b].exec = b

\* C18 as stated: a POST request whose body carries the operation name under
\* operationName only is requested from the proxy under that name, with the
\* variables of the body, by every handler.
C18_OperationNameAccepted ==
  \A c \in Calls :
    LET body == calls[c].req.payload
    IN ( /\ ViaHandler(c) /\ calls[c].req.method = "POST"
         /\ Has(body, "operationName")
         /\ ~Has(body, "op") /\ ~Has(body, "operation") /\ ~Has(body, "query")
         /\ IsOperation(Get(body, "operationName")) )
       => /\ Requested(c)
          /\ Str(calls[c].name) = Get(body, "operationName")
          /\ calls[c].variables = ToVariables(FirstPresent(body, <<"v", "variables">>))

-----------------------------------------------------------------------------
(* The headers handed to the transport *)

\* C21 as stated: the headers handed to the transport carry content-type and
\* accept, both application/json, whatever the client sent under those names,
\* and every other client header that is not forbidden with the client's value.
C21_JsonHeadersForced ==
  \A e \in Calls :
    execs[e].dispatched =>
      /\ Has(execs[e].sent, "content-type")
      /\ Get(execs[e].sent, "content-type") = "application/json"
      /\ Has(execs[e].sent, "accept")
      /\ Get(execs[e].sent, "accept") = "application/json"
      /\ \A p \in Entries(execs[e].headers) :
           p[1] \notin (ForbiddenHeaders \cup {"content-type", "accept"})
             => p \in Entries(execs[e].sent)

-----------------------------------------------------------------------------
(* The headers sent to the client *)

\* the projection a handler is configured with, applied to the upstream
\* response headers
ConfiguredProjection(c) ==
  IF calls[c].adapter = NextWithResultHeaders
    THEN copyHeaders(UpstreamHeaders, {"x-includes"})
    ELSE copyHeaders(UpstreamHeaders, {"content-encoding", "content-type", "content-length"})

\* C22 as stated: the headers of a handler's answer to a request the transport
\* answered are exactly the upstream response headers its configured projection
\* selects (the default selects content-encoding, content-type and
\* content-length only; a custom resultHeaders selects what it returns).
C22_ProjectedHeadersSent ==
  \A c \in Calls :
    ( /\ ViaHandler(c) /\ calls[c].pc = "done"
      /\ calls[c].result.kind = "ok" /\ calls[c].result.by = "transport" )
    => Entries(calls[c].response.headers) = Entries(ConfiguredProjection(c))

-----------------------------------------------------------------------------
(* validate *)

\* the names registered without an override
Unoverridden ==
  {opsMap[i].operationName : i \in {j \in 1..Len(opsMap) :
                                      mCustomHandler[opsMap[j].operationName] = NULL}}

NamesOf(defs) == {defs[i].operationName : i \in 1..Len(defs)}

ValidateHadNothingToCheck ==
  /\ validation.pc = "done" /\ ~validation.dispatched /\ validation.errors = <<>>
  /\ Unoverridden = {}

-----------------------------------------------------------------------------
(* getOperation *)

\* the place of the last operation supplied under a name
LastSupplied(n) ==
  CHOOSE i \in 1..Len(operations) :
    /\ operations[i].operationName = n
    /\ \A j \in 1..Len(operations) : operations[j].operationName = n => j <= i

GetOperationReturned ==
  /\ Len(operations) >= 2 /\ operations[1].operationName = "getX"
  /\ lookup.name = "getY" /\ ~lookup.threw
  /\ lookup.def = <<operations[2]>> /\ lookup.def[1].ttl = <<PcachedTTL>>

-----------------------------------------------------------------------------
(* The @pcached directive *)

\* the names of the directives in a printed document
DirectiveNames(query) == {query[3][i].name : i \in 1..Len(query[3])}

\* the last document supplied under a name
LastDocument(n) == operations[LastSupplied(n)]

\* C25: construction from documents throws exactly when a document has no
\* named operation; otherwise each operation's ttl is the N of its
\* @pcached(ttl: N) directive (none without one), its query text is the
\* document without the pcached directives and with every other directive in
\* place, and the query handed to the transport is that text: it never
\* contains @pcached.
C25_PcachedStripped ==
  /\ (operations # <<>> /\ opsMap = <<>>) <=>
       (\E i \in 1..Len(operations) :
          operations[i].type = "" \/ operations[i].operationName = "")
  /\ \A k \in 1..Len(opsMap) :
       LET def == opsMap[k]
           doc == LastDocument(def.operationName)
           own == {i \in 1..Len(doc.directives) :
                     /\ doc.directives[i].name = "pcached"
                     /\ doc.directives[i].arg = "ttl"}
       IN /\ "pcached" \notin DirectiveNames(def.query)
          /\ def.query[3] = SelectSeq(doc.directives, LAMBDA d : d.name # "pcached")
          /\ def.query[1] = doc.type /\ def.query[2] = doc.operationName
          /\ def.query[4] = <<"{", doc.selection, "}">>
          /\ own = {} => def.ttl = <<>>
          /\ \A i \in own : def.ttl = <<doc.directives[i].value[2]>>
  /\ \A e \in Calls :
       execs[e].dispatched =>
         /\ execs[e].query = <<OpsGet(execs[e].name).query>>
         /\ "pcached" \notin DirectiveNames(execs[e].query[1])

\* test (with @pcached(ttl: N)) and e (with @cached and a @pcached without
\* ttl) were requested: the transport got test without a directive and e with
\* @cached only
C25_Witness ==
  \E a, b \in Calls :
    /\ execs[a].name = "test" /\ execs[a].dispatched
    /\ execs[a].query[1][3] = <<>>
    /\ OpsGet("test").ttl = <<PcachedTTL>>
    /\ execs[b].name = "e" /\ execs[b].dispatched
    /\ DirectiveNames(execs[b].query[1]) = {"cached"}
    /\ OpsGet("e").ttl = <<>>

-----------------------------------------------------------------------------
(* Registrations that replace one another *)

SlotOps == {"getX", "getY"}

\* "h2" is a second override handler
SlotHandlers == Handlers \cup {"h2"}

\* the requests are for getX; getY is the operation whose slots they must not
\* see
SlotInputs == { [name |-> "getX", variables |-> V2, headers |-> AuthA] }

NextSlots ==
  \/ \E c \in DOMAIN calls, inp \in SlotInputs : Request(c, inp)
  \/ \E e \in DOMAIN calls : ValidatorSettles(e)
  \/ \E e \in DOMAIN calls : OverrideSettles(e, Obj(V1))
  \/ \E e \in DOMAIN calls : TransportSettles(e, TRUE)
  \/ \E n \in SlotOps, v \in HttpValidators : AddValidation(n, v)
  \/ \E n \in SlotOps, h \in SlotHandlers : AddOverride(n, h)

SpecSlots == Init /\ [][NextSlots]_vars

\* the operations whose slot differs between two slot tables
Changed(old, new) == {n \in DOMAIN old : old[n] # new[n]}

\* C26: each slot holds the function registered last for its operation; an
\* execution that starts validating invokes that validator and one that starts
\* the override invokes that handler; a step that changes a validator slot
\* changes the slot of one operation and no override slot, and the other way
\* round, and no registration touches the registry or an execution.
C26_RegistrationReplaces ==
  [][ /\ mValidate' = registrations'.validate
      /\ mCustomHandler' = registrations'.override
      /\ \A e \in Calls :
           /\ (execs[e].pc # "validating" /\ execs'[e].pc = "validating") =>
                execs'[e].validator = registrations.validate[execs'[e].name]
           /\ (execs[e].pc # "overriding" /\ execs'[e].pc = "overriding") =>
                execs'[e].handler = registrations.override[execs'[e].name]
      /\ registrations'.validate # registrations.validate =>
           /\ Cardinality(Changed(mValidate, mValidate')) = 1
           /\ UNCHANGED <<mCustomHandler, opsMap, execs, calls>>
      /\ registrations'.override # registrations.override =>
           /\ Cardinality(Changed(mCustomHandler, mCustomHandler')) = 1
           /\ UNCHANGED <<mValidate, opsMap, execs, calls>>
    ]_vars

\* two executions of getX: the first ran the validator and the override
\* registered first, the second the ones registered in their place, while
\* getY kept its own
C26_Witness ==
  /\ execs[1].name = "getX" /\ execs[2].name = "getX"
  /\ execs[1].validator = "vMin" /\ execs[1].handler = "h1"
  /\ execs[2].validator = "vThrow"
  /\ mValidate["getX"] = "vThrow" /\ mCustomHandler["getX"] = "h2"
  /\ mValidate["getY"] = "vMin" /\ mCustomHandler["getY"] = NULL

-----------------------------------------------------------------------------
(* The order of the steps of resolve *)

\* the step an execution takes from x to y is a step of resolve in its order
ResolveStep(x, y) ==
  CASE x.pc = "none" /\ y.pc = "validating" ->
         /\ mValidate[y.name] # NULL /\ y.validator = mValidate[y.name]
         /\ y.handler = NULL /\ ~y.dispatched
    [] x.pc = "none" /\ y.pc = "overriding" ->
         /\ mValidate[y.name] = NULL /\ y.validator = NULL
         /\ y.handler = mCustomHandler[y.name] /\ ~y.dispatched
    [] x.pc = "none" /\ y.pc = "transport" ->
         /\ mValidate[y.name] = NULL /\ mCustomHandler[y.name] = NULL
         /\ y.validator = NULL /\ y.handler = NULL /\ y.dispatched
    [] x.pc = "validating" /\ y.pc = "overriding" ->
         /\ Verdict(x.validator, x.variables) = "pass"
         /\ y.handler = mCustomHandler[x.name] /\ y.handler # NULL /\ ~y.dispatched
    [] x.pc = "validating" /\ y.pc = "transport" ->
         /\ Verdict(x.validator, x.variables) = "pass"
         /\ mCustomHandler[x.name] = NULL /\ y.handler = NULL /\ y.dispatched
    [] x.pc = "validating" /\ y.pc = "done" ->
         /\ Verdict(x.validator, x.variables) # "pass"
         /\ y.result.kind \notin {"ok", "pending"}
         /\ y.handler = NULL /\ ~y.dispatched
    [] x.pc = "overriding" /\ y.pc = "done" ->
         /\ y.handler = x.handler /\ ~y.dispatched
    [] x.pc = "transport" /\ y.pc = "done" ->
         /\ y.handler = NULL /\ y.dispatched
    [] OTHER -> FALSE

\* C27: an execution of resolve invokes the validator (when one is set) first,
\* with the variables of the request, and goes on to the override or to the
\* transport only when the validator has passed; it then invokes the override
\* or the transport, never both, and once: it ends after that step.
C27_ResolveOrdered ==
  [][ \A e \in Calls :
        /\ execs'[e] # execs[e] => ResolveStep(execs[e], execs'[e])
        /\ execs[e].pc = "done" => execs'[e] = execs[e]
    ]_vars

\* the test 'validates': an operation with a validator and an override was
\* requested, the validator passed, the override answered and the transport
\* was not called
C27_Witness ==
  \E e \in Calls :
    /\ execs[e].pc = "done"
    /\ execs[e].validator = "vMin" /\ Verdict("vMin", execs[e].variables) = "pass"
    /\ execs[e].handler = "h1" /\ execs[e].result.by = "h1"
    /\ ~execs[e].dispatched

-----------------------------------------------------------------------------
(* Errors thrown by the validator, the override and the transport *)

\* the error an execution ended with when its validator, its override or its
\* transport call threw: none (<<>>) when none of them did
ThrownIn(x) ==
  IF x.pc # "done" \/ x.result.kind = "ok" THEN <<>>
  ELSE IF x.dispatched THEN <<"transport failed">>
  ELSE IF x.handler # NULL THEN <<"override failed">>
  ELSE IF Verdict(x.validator, x.variables) = "throw" THEN <<"validator failed">>
  ELSE <<>>

\* C28: an execution whose validator, override or transport call threw ends
\* with that error, which is neither a ValidationError nor a NotFoundError;
\* every call that waited for it is rejected with the same error and, through
\* a handler, answered 500 with its message; the execution is not started
\* again and the transport is not called again for it: a finished execution
\* and a settled call never change.
C28_ThrownErrorsPropagate ==
  [][ \A e \in Calls :
        /\ ThrownIn(execs'[e]) # <<>> =>
             /\ execs'[e].result = Failure("Error", ThrownIn(execs'[e]))
             /\ \A c \in Calls :
                  (calls'[c].exec = e /\ ~calls'[c].hit) =>
                    /\ calls'[c].pc = "done"
                    /\ calls'[c].result = execs'[e].result
                    /\ calls'[c].adapter # "" =>
                         /\ calls'[c].response.status = 500
                         /\ calls'[c].response.message = ThrownIn(execs'[e])
        /\ execs[e].pc = "done" => execs'[e] = execs[e]
        /\ calls[e].pc = "done" => calls'[e] = calls[e]
    ]_vars

\* a validator threw for one request and the transport failed for the other:
\* both were answered 500, the transport having been called for the second
\* only
C28_Witness ==
  \E a, b \in Calls :
    /\ ThrownIn(execs[a]) = <<"validator failed">> /\ ~execs[a].dispatched
    /\ ThrownIn(execs[b]) = <<"transport failed">>
    /\ calls[a].exec = a /\ calls[a].response.status = 500
    /\ calls[b].exec = b /\ calls[b].response.status = 500

\* an override threw and its request was answered 500
OverrideErrorAnswered ==
  \E a \in Calls :
    /\ ThrownIn(execs[a]) = <<"override failed">>
    /\ calls[a].exec = a /\ calls[a].response.status = 500

-----------------------------------------------------------------------------
(* The facade of a constructed proxy *)

getOperations_Reversed == [i \in 1..Len(opsMap) |-> opsMap[Len(opsMap) + 1 - i]]

\* Array.from(opsMap.values())
getOperations == [i \in 1..Len(opsMap) |-> opsMap[i]]

\* proxy.getOperations()
GetOperations ==
  /\ lookup' = [NoLookup EXCEPT !.name = "*", !.def = getOperations]
  /\ UNCHANGED <<registrations, validation, operations, opsMap, mValidate, mCustomHandler,
                 wrapped, cacheTTL, dedupes, storage, calls, execs, now>>

FacadeInputs == { [name |-> "getX", variables |-> V2, headers |-> AuthA] }

\* every call of the facade, in any order
NextFacade ==
  \/ \E c \in DOMAIN calls, inp \in FacadeInputs : Request(c, inp)
  \/ \E e \in DOMAIN calls : ValidatorSettles(e)
  \/ \E e \in DOMAIN calls : OverrideSettles(e, Obj(V1))
  \/ \E e \in DOMAIN calls : TransportSettles(e, TRUE)
  \/ \E n \in RegOps, v \in Validators : AddValidation(n, v)
  \/ \E n \in RegOps, h \in Handlers : AddOverride(n, h)
  \/ WithCache(GlobalTTL)
  \/ Validate
  \/ \E schema \in Schemas : IntrospectionSettles(schema)
  \/ IntrospectionFails
  \/ \E n \in {"getY", "nope"} : GetOperation(n)
  \/ GetOperations

SpecFacade == Init /\ [][NextFacade]_vars

\* name, kind, query text and ttl of a descriptor
Fields(def) == <<def.operationName, def.type, def.query, def.ttl>>

\* C29: no call of the facade changes the registry: the registered names and
\* each operation's name, kind, query text and ttl stay those of the
\* construction; getOperations returns one descriptor per name, in the order
\* of their insertion; a validator or override slot changes only in a step
\* that registers something.
C29_RegistryFixed ==
  [][ /\ Len(opsMap') = Len(Operations)
      /\ \A i \in 1..Len(Operations) : Fields(opsMap'[i]) = Fields(Operations[i])
      /\ operations' = operations
      /\ lookup'.name = "*" =>
           /\ Len(lookup'.def) = Len(Operations)
           /\ \A i \in 1..Len(Operations) :
                Fields(lookup'.def[i]) = Fields(Operations[i])
      /\ (mValidate' # mValidate \/ mCustomHandler' # mCustomHandler) =>
           registrations' # registrations
    ]_vars

\* getOperations has returned getX, getY, setX after a request was answered
\* by an override registered for getX on a cached proxy that has been
\* validated
C29_Witness ==
  /\ lookup.name = "*"
  /\ [i \in 1..Len(lookup.def) |-> lookup.def[i].operationName] = <<"getX", "getY", "setX">>
  /\ wrapped /\ validation.pc = "done"
  /\ mCustomHandler["getX"] = "h1" /\ mValidate["getX"] = "vMin"
  /\ \E c \in Calls : calls[c].pc = "done" /\ calls[c].result.by = "h1"

-----------------------------------------------------------------------------
(* withCache with cacheTTL 0 *)

\* the call is to a wrapped query that has no ttl of its own, on a cache
\* created with cacheTTL 0
IsUncachedQuery(call) ==
  /\ wrapped /\ cacheTTL = 0
  /\ OpsHas(call.name)
  /\ OpsGet(call.name).type = "query" /\ OpsGet(call.name).ttl = <<>>

\* the executions under way that an identical call would wait on
RunningFor(call) ==
  {e \in Calls : IsRunning(e) /\ execs[e].viaCache /\ SameKeyParts(execs[e], call)}

\* C30: with cacheTTL 0 and no ttl of its own, a wrapped query is never served
\* from the storage: a call issued while an identical call's execution is
\* under way waits on that execution and starts none, a call issued when no
\* such execution is under way (also when one has resolved before) starts an
\* execution of its own, and every caller of an execution gets that
\* execution's result.
C30_DedupedNotCached ==
  [][ \A b \in Calls :
        /\ (calls[b].pc = "idle" /\ calls'[b].pc # "idle" /\ IsUncachedQuery(calls'[b])) =>
             /\ ~calls'[b].hit
             /\ IF RunningFor(calls'[b]) # {}
                  THEN calls'[b].exec \in RunningFor(calls'[b]) /\ execs' = execs
                  ELSE /\ calls'[b].exec = b
                       /\ execs[b].pc = "none" /\ execs'[b].pc # "none"
        /\ (calls'[b].pc = "done" /\ IsUncachedQuery(calls'[b])) =>
             /\ calls'[b].result = execs'[calls'[b].exec].result
             /\ \A s \in storage' : s.name # calls'[b].name
    ]_vars

\* two identical calls of getX on a cache with cacheTTL 0, the second issued
\* after the first had resolved with a value: each ran an execution of its own
C30_Witness ==
  \E a, b \in Calls :
    /\ a < b /\ IsUncachedQuery(calls[a]) /\ SameKeyParts(calls[a], calls[b])
    /\ calls[a].exec = a /\ execs[a].pc = "done" /\ calls[a].result.kind = "ok"
    /\ calls[b].exec = b /\ execs[b].dispatched /\ ~calls[b].hit

\* two identical concurrent calls of getX on a cache with cacheTTL 0 shared
\* one execution and its value
UncachedShared ==
  \E a, b \in Calls :
    /\ a < b /\ IsUncachedQuery(calls[a]) /\ SameKeyParts(calls[a], calls[b])
    /\ calls[a].exec = a /\ calls[b].exec = a /\ execs[b].pc = "none"
    /\ calls[a].result.kind = "ok" /\ calls[b].result = calls[a].result

-----------------------------------------------------------------------------
(* Requests settle *)

LiveInputs ==
  { [name |-> "getX", variables |-> V1, headers |-> AuthA],
    [name |-> "getX", variables |-> V2, headers |-> AuthA],
    [name |-> "nope", variables |-> V1, headers |-> AuthA] }

NextLive ==
  \/ \E c \in DOMAIN calls, inp \in LiveInputs : Request(c, inp)
  \/ \E e \in DOMAIN calls : ValidatorSettles(e)
  \/ \E e \in DOMAIN calls : OverrideSettles(e, Obj(V1))
  \/ \E e \in DOMAIN calls, ok \in BOOLEAN : TransportSettles(e, ok)
  \/ \E n \in RegOps, v \in Validators : AddValidation(n, v)
  \/ \E n \in RegOps, h \in Handlers : AddOverride(n, h)
  \/ \E ttl \in {0, GlobalTTL} : WithCache(ttl)

\* the promises of the validator, of the override and of the transport call
\* settle: an awaited step that can be taken is taken
Settling ==
  \A e \in 1..MaxCalls :
    /\ WF_vars(ValidatorSettles(e))
    /\ WF_vars(OverrideSettles(e, Obj(V1)))
    /\ WF_vars(\E ok \in BOOLEAN : TransportSettles(e, ok))

SpecLive == Init /\ [][NextLive]_vars /\ Settling

\* C31: a call that is pending is eventually settled, whether it started the
\* execution or waits on the execution of an identical call; a settled call
\* that waited on an execution has that execution's result.
C31_EveryCallSettles ==
  \A c \in 1..MaxCalls :
    (calls[c].pc = "pending") ~>
      (/\ calls[c].pc = "done"
       /\ calls[c].exec \in 1..MaxCalls
       /\ calls[c].result = execs[IF calls[c].exec = 0 THEN c ELSE calls[c].exec].result)

\* two identical calls waited on one execution that reached the transport;
\* both are settled with its result
C31_Witness ==
  \E a, b \in Calls :
    /\ a < b /\ calls[a].exec = a /\ calls[b].exec = a /\ ~calls[b].hit
    /\ execs[a].dispatched /\ execs[a].pc = "done"
    /\ calls[a].pc = "done" /\ calls[b].pc = "done"
    /\ calls[b].result = execs[a].result

-----------------------------------------------------------------------------
(* The start of an entry's life *)

\* C32 as stated: a call issued more than ttl seconds after the first call of
\* its key was issued is not served from the cache.
C32_Original ==
  \A a, b \in Calls :
    ( /\ a # b /\ IsWrappedQuery(a) /\ IsWrappedQuery(b)
      /\ SameKeyParts(calls[a], calls[b])
      /\ TTLOf(a) > 0
      /\ calls[a].exec = a
      /\ IsIssued(b) /\ calls[b].issuedAt - calls[a].issuedAt > TTLOf(a) )
    => ~calls[b].hit

\* C32 (amended): an entry is created when the execution of its key resolves
\* with a value, and its expiry is counted from that moment: every entry
\* starts at the resolution of the execution whose value it holds; a call
\* served from the cache is served from an entry stored less than ttl seconds
\* before, and is served so whenever there is one, however long ago the first
\* call of the key was issued; a call issued ttl seconds or more after every
\* resolution of its key, with no execution of the key under way, starts a
\* fresh execution.
C32_ExpiryFromResolution ==
  [][ /\ \A s \in storage' : s.start = execs'[s.value.exec].resolvedAt
      /\ \A c \in Calls :
           ( /\ calls[c].pc = "idle" /\ calls'[c].pc # "idle"
             /\ IsWrappedQuery(c)' /\ TTLOf(c)' > 0 )
           => /\ calls'[c].hit =>
                   \E s \in EntriesFor(calls'[c]) :
                     /\ calls'[c].result = s.value
                     /\ now - execs[s.value.exec].resolvedAt < s.ttl
              /\ (\E e \in SucceededFor(calls'[c]) :
                    now - execs[e].resolvedAt < TTLOf(c)') => calls'[c].hit
              /\ ( /\ RunningFor(calls'[c]) = {}
                   /\ \A e \in SucceededFor(calls'[c]) :
                        now - execs[e].resolvedAt >= TTLOf(c)' )
                 => /\ ~calls'[c].hit
                    /\ calls'[c].exec = c /\ execs'[c].pc # "none"
    ]_vars

\* the first execution of the key took a second to resolve and the second
\* call, issued ttl seconds after that resolution, ran an execution of its own
C32_Witness ==
  \E a, b \in Calls :
    /\ a # b /\ IsWrappedQuery(a) /\ IsWrappedQuery(b)
    /\ SameKeyParts(calls[a], calls[b])
    /\ TTLOf(a) > 0
    /\ calls[a].exec = a /\ execs[a].result.kind = "ok"
    /\ execs[a].resolvedAt > calls[a].issuedAt
    /\ calls[b].issuedAt >= execs[a].resolvedAt + TTLOf(a)
    /\ calls[b].exec = b /\ ~calls[b].hit /\ execs[b].pc # "none"

-----------------------------------------------------------------------------
(* What the cache key leaves out, and what it always holds *)

\* the headers of AuthA with a cookie and a custom header next to them
AuthACookie ==
  << <<"authorization", "a">>, <<"cookie", "sid=1">>, <<"x-custom", "1">> >>

KeyInputs ==
  { [name |-> "getX", variables |-> V1, headers |-> AuthA],
    [name |-> "getX", variables |-> V1, headers |-> AuthACookie],
    [name |-> "getY", variables |-> V1, headers |-> AuthA],
    [name |-> "getY", variables |-> V1, headers |-> AuthACookie] }

NextKeys ==
  \/ \E c \in DOMAIN calls, inp \in KeyInputs : Request(c, inp)
  \/ \E e \in DOMAIN calls, ok \in BOOLEAN : TransportSettles(e, ok)
  \/ \E ttl \in {0, GlobalTTL} : WithCache(ttl)

SpecKeys == Init /\ [][NextKeys]_vars

\* C33: a call to a cache-wrapped query issued while an execution with the
\* same operation name, variables, authorization value and x-hasura-* headers
\* is under way waits on that execution, and one issued while an entry of such
\* an execution is stored is served from it, whatever the other headers of the
\* two calls are: the call starts no execution, so its own headers are never
\* sent upstream, and the value it gets was obtained with the headers of the
\* call that started the execution.
C33_OtherHeadersIgnored ==
  [][ \A b \in Calls :
        (calls[b].pc = "idle" /\ calls'[b].pc # "idle" /\ IsWrappedQuery(b)') =>
          /\ RunningFor(calls'[b]) # {} =>
               /\ calls'[b].exec \in RunningFor(calls'[b])
               /\ execs' = execs
          /\ (RunningFor(calls'[b]) = {} /\ EntriesFor(calls'[b]) # {}) =>
               /\ calls'[b].hit /\ calls'[b].pc = "done"
               /\ \E s \in EntriesFor(calls'[b]) : calls'[b].result = s.value
               /\ execs' = execs
          /\ calls'[b].result.kind = "ok" =>
               /\ execs[b].pc = "none" /\ execs[b].sent = <<>>
               /\ execs[calls'[b].result.exec].headers = calls[calls'[b].result.exec].headers
    ]_vars

\* the second call of getX carried a cookie and a custom header the first did
\* not: it was served the value the first obtained, and the transport got the
\* first call's headers only
C33_Witness ==
  \E a, b \in Calls :
    /\ a < b /\ IsWrappedQuery(a) /\ IsWrappedQuery(b)
    /\ SameKeyParts(calls[a], calls[b])
    /\ calls[a].headers = AuthA /\ calls[b].headers = AuthACookie
    /\ calls[a].exec = a /\ execs[a].dispatched /\ calls[a].result.kind = "ok"
    /\ calls[b].hit /\ calls[b].result = calls[a].result
    /\ execs[b].pc = "none" /\ ~Has(execs[a].sent, "cookie")

\* the same two calls, the second issued while the first's execution was under
\* way
OtherHeadersJoined ==
  \E a, b \in Calls :
    /\ a < b /\ calls[a].headers = AuthA /\ calls[b].headers = AuthACookie
    /\ calls[a].name = calls[b].name
    /\ calls[a].exec = a /\ calls[b].exec = a /\ ~calls[b].hit
    /\ calls[b].result.kind = "ok" /\ execs[b].pc = "none"

\* C34: two calls to different cache-wrapped queries never wait on the same
\* execution, and neither gets a value obtained by an execution of the other
\* operation, also when variables and headers are the same; every stored entry
\* is held under the name of the operation whose execution produced it.
C34_OperationsApart ==
  /\ \A a, b \in Calls :
       ( /\ IsIssued(a) /\ IsIssued(b)
         /\ IsWrappedQuery(a) /\ IsWrappedQuery(b)
         /\ calls[a].name # calls[b].name )
       => /\ (calls[a].exec # 0 /\ calls[b].exec # 0) => calls[a].exec # calls[b].exec
          /\ calls[a].result.kind = "ok" =>
               execs[calls[a].result.exec].name = calls[a].name
  /\ \A s \in storage : execs[s.value.exec].name = s.name
  /\ \A d \in dedupes : execs[d.exec].name = d.name

\* getX and getY were called with the same variables and headers, getY while
\* the execution of getX was under way: each ran its own execution
C34_Witness ==
  \E a, b \in Calls :
    /\ a < b /\ IsWrappedQuery(a) /\ IsWrappedQuery(b)
    /\ calls[a].name = "getX" /\ calls[b].name = "getY"
    /\ calls[a].variables = calls[b].variables /\ calls[a].headers = calls[b].headers
    /\ calls[a].exec = a /\ calls[b].exec = b
    /\ execs[a].pc = "transport" /\ execs[b].pc = "transport"

\* the same two calls, getY issued after getX had been answered and stored
OperationsApartStored ==
  \E a, b \in Calls :
    /\ a < b /\ IsWrappedQuery(a) /\ IsWrappedQuery(b)
    /\ calls[a].name = "getX" /\ calls[b].name = "getY"
    /\ calls[a].variables = calls[b].variables /\ calls[a].headers = calls[b].headers
    /\ \E s \in storage : s.name = "getX" /\ s.value = calls[a].result
    /\ calls[b].exec = b /\ ~calls[b].hit /\ execs[b].dispatched

-----------------------------------------------------------------------------
(* Credentials under a capitalised header name *)

AuthCapitalA == << <<"Authorization", "a">> >>

AuthCapitalB == << <<"Authorization", "b">> >>

CaseInputs ==
  { [name |-> "getX", variables |-> V1, headers |-> AuthA],
    [name |-> "getX", variables |-> V1, headers |-> AuthCapitalA],
    [name |-> "getX", variables |-> V1, headers |-> AuthCapitalB],
    [name |-> "getY", variables |-> V1, headers |-> AuthCapitalA],
    [name |-> "getY", variables |-> V1, headers |-> AuthCapitalB] }

NextCase ==
  \/ \E c \in DOMAIN calls, inp \in CaseInputs : Request(c, inp)
  \/ \E e \in DOMAIN calls, ok \in BOOLEAN : TransportSettles(e, ok)
  \/ \E ttl \in {0, GlobalTTL} : WithCache(ttl)

SpecCase == Init /\ [][NextCase]_vars

\* the credential of a header collection under any capitalisation of
\* authorization
CredentialOf(headers) ==
  {p[2] : p \in {q \in Entries(headers) : ToLowerCase(q[1]) = "authorization"}}

\* C35: two calls to a cache-wrapped query whose credentials differ, under
\* whatever capitalisation of the authorization header, never wait on the same
\* execution, and none gets a value obtained with another credential.
C35_CredentialsIsolatedAnyCase ==
  \A a, b \in Calls :
    ( /\ IsIssued(a) /\ IsIssued(b)
      /\ IsWrappedQuery(a) /\ IsWrappedQuery(b)
      /\ CredentialOf(calls[a].headers) # CredentialOf(calls[b].headers) )
    => /\ (calls[a].exec # 0 /\ calls[b].exec # 0) => calls[a].exec # calls[b].exec
       /\ calls[a].result.kind = "ok" =>
            CredentialOf(execs[calls[a].result.exec].headers) =
              CredentialOf(calls[a].headers)

-----------------------------------------------------------------------------
(* Registrations on a proxy whose cache is in use *)

LateInputs == { [name |-> "getX", variables |-> V1, headers |-> AuthA] }

\* a cached proxy in service while time passes: validators and overrides are
\* registered at any moment
NextLate ==
  \/ \E c \in DOMAIN calls, inp \in LateInputs : Request(c, inp)
  \/ \E e \in DOMAIN calls : ValidatorSettles(e)
  \/ \E e \in DOMAIN calls : OverrideSettles(e, Obj(V1))
  \/ \E e \in DOMAIN calls : TransportSettles(e, TRUE)
  \/ \E n \in RegOps, v \in Validators : AddValidation(n, v)
  \/ \E n \in RegOps, h \in Handlers : AddOverride(n, h)
  \/ WithCache(GlobalTTL)
  \/ Tick

SpecLate == InitExpiry /\ [][NextLate]_vars

\* the executions of a call's key that resolved with a value less than ttl
\* seconds ago: their entry has not expired
FreshFor(call, ttl) ==
  {e \in SucceededFor(call) : execs[e].viaCache /\ now - execs[e].resolvedAt < ttl}

\* C36: a call to a cache-wrapped query that is served from an entry or joins
\* an execution under way moves no execution: neither the validator nor the
\* override nor the transport is invoked for it.  While an entry of its key is
\* valid a call is served from it, also when a validator registered in the
\* meantime would refuse its variables; once the entry has expired the call
\* starts an execution, which begins with the validator registered by then.
C36_CacheWrapsResolver ==
  [][ \A c \in Calls :
        (calls[c].pc = "idle" /\ calls'[c].pc # "idle" /\ IsWrappedQuery(c)') =>
          /\ (calls'[c].hit \/ calls'[c].exec # c) =>
               /\ execs' = execs
               /\ execs[c].pc = "none"
          /\ (RunningFor(calls'[c]) = {} /\ FreshFor(calls'[c], TTLOf(c)') # {}) =>
               /\ calls'[c].hit /\ calls'[c].result.kind = "ok"
               /\ calls'[c].result \in {execs[e].result : e \in FreshFor(calls'[c], TTLOf(c)')}
          /\ (RunningFor(calls'[c]) = {} /\ FreshFor(calls'[c], TTLOf(c)') = {}) =>
               /\ calls'[c].exec = c /\ ~calls'[c].hit
               /\ mValidate[calls'[c].name] # NULL =>
                    /\ execs'[c].pc = "validating"
                    /\ execs'[c].validator = mValidate[calls'[c].name]
    ]_vars

\* getX was answered and stored; vMin, which refuses id 1, was registered; the
\* second call was still served from the entry, and the third, issued after
\* the entry had expired, was refused by the validator
C36_Witness ==
  /\ calls[1].exec = 1 /\ execs[1].validator = NULL /\ calls[1].result.kind = "ok"
  /\ calls[2].hit /\ calls[2].result = calls[1].result /\ execs[2].pc = "none"
  /\ calls[3].exec = 3 /\ execs[3].validator = "vMin"
  /\ calls[3].result.kind = "ValidationError"
  /\ calls[3].issuedAt > calls[2].issuedAt

\* C38: an execution started by the cached function of a wrapped query begins
\* with the validator registered last before it starts, whenever that was
\* registered, and after the validator (or at once when there is none) goes to
\* the override registered last before that step, else to the transport: the
\* slots are read when the execution runs.
C38_SlotsReadAtExecution ==
  [][ \A e \in Calls :
        LET x == execs[e]
            y == execs'[e]
            v == registrations.validate[y.name]
            h == registrations.override[y.name]
        IN (y.viaCache /\ x.pc \in {"none", "validating"} /\ y.pc \notin {x.pc, "done"}) =>
             /\ (x.pc = "none" /\ v # NULL) => (y.pc = "validating" /\ y.validator = v)
             /\ (x.pc = "validating" \/ v = NULL) =>
                  IF h # NULL
                    THEN y.pc = "overriding" /\ y.handler = h /\ ~y.dispatched
                    ELSE y.pc = "transport" /\ y.dispatched /\ y.handler = NULL
    ]_vars

\* on the wrapped proxy the first execution of getX went to the transport;
\* the override registered afterwards answered the execution that ran once
\* the entry had expired
C38_Witness ==
  \E a, b \in Calls :
    /\ a < b /\ wrapped
    /\ execs[a].viaCache /\ execs[a].dispatched /\ execs[a].result.kind = "ok"
    /\ execs[a].handler = NULL
    /\ execs[b].viaCache /\ execs[b].handler = "h1" /\ execs[b].result.by = "h1"
    /\ ~execs[b].dispatched

-----------------------------------------------------------------------------
(* Failures and the cache *)

\* C37: when the execution of a cache-wrapped query fails, every call waiting
\* on it gets that failure and the storage stays as it was: no entry holds a
\* failure; a call issued when no execution of its key is under way and none
\* has succeeded starts an execution of its own, whatever the ttl and however
\* many executions of the key failed before.
C37_FailuresNotCached ==
  [][ /\ \A e \in Calls :
           ( /\ execs[e].pc # "done" /\ execs'[e].pc = "done"
             /\ execs[e].viaCache /\ execs'[e].result.kind # "ok" )
           => /\ storage' = storage
              /\ \A c \in Calls :
                   (calls[c].pc = "pending" /\ calls[c].exec = e) =>
                     (calls'[c].pc = "done" /\ calls'[c].result = execs'[e].result)
      /\ \A s \in storage' : s.value.kind = "ok"
      /\ \A c \in Calls :
           ( /\ calls[c].pc = "idle" /\ calls'[c].pc # "idle" /\ IsWrappedQuery(c)'
             /\ RunningFor(calls'[c]) = {} /\ SucceededFor(calls'[c]) = {} )
           => /\ ~calls'[c].hit
              /\ calls'[c].exec = c /\ execs'[c].pc # "none"
    ]_vars

\* the transport failed for the first call of a key with a ttl; the second
\* call of the key ran an execution of its own
C37_Witness ==
  \E a, b \in Calls :
    /\ a < b /\ IsWrappedQuery(a) /\ IsWrappedQuery(b)
    /\ SameKeyParts(calls[a], calls[b]) /\ TTLOf(a) > 0
    /\ calls[a].exec = a /\ execs[a].dispatched
    /\ calls[a].result.kind = "Error"
    /\ calls[b].exec = b /\ ~calls[b].hit /\ execs[b].pc # "none"

\* two calls waited on one execution that the validator refused: both got the
\* ValidationError
FailureShared ==
  \E a, b \in Calls :
    /\ a < b /\ calls[a].exec = a /\ calls[b].exec = a
    /\ calls[a].result.kind = "ValidationError"
    /\ calls[b].result = calls[a].result
    /\ storage = {}

-----------------------------------------------------------------------------
(* The caller's header collection *)

-----------------------------------------------------------------------------
(* A response for every request *)

\* C40: a handler that has finished with a request has produced a response
\* (its status is one of 200, 400, 404, 500), never a rejection; a request
\* whose variables are not valid JSON is answered with an error status and
\* proxy.request is not called for it.
C40_AlwaysAnswers ==
  \A c \in Calls :
    (ViaHandler(c) /\ calls[c].pc = "done") =>
      /\ calls[c].response.status \in {200, 400, 404, 500}
      /\ ( /\ HandlesMethod(calls[c].req.method)
           /\ TypeOf(Parse(calls[c].req).variables) = "throw" )
         => /\ calls[c].response.status >= 400
            /\ calls[c].exec = 0 /\ execs[c].pc = "none"

====
